---- MODULE Spec2Model ----
(***************************************************************************)
(* A model of the simag knowledge base (src/src/simag/core/kblogic.py and  *)
(* src/src/simag/core/parser.py): the Representation store (individuals,   *)
(* classes), the atoms and their comparison, the sentence evaluator and    *)
(* the Inference process behind Representation.ask; and of the belief     *)
(* maintenance system of src/src/core/bms.py with the store of            *)
(* src/src/core/kblogic.py it reads.                                       *)
(*                                                                         *)
(* Python's True / False / None are the strings "true", "false", "none".   *)
(* A name is an individual when it carries the '$' prefix ('$' in name).   *)
(***************************************************************************)
EXTENDS Integers, Sequences, FiniteSets, TLC

VARIABLES individuals, classes, bms, last, tells,
          locked, acquired, pc, lock, got, logsentence

vars == <<individuals, classes, bms, last, tells,
          locked, acquired, pc, lock, got, logsentence>>

\* the state of the locks of thread_manager and of the running calls of a
\* sentence, and the store with the record of the last operation
lockvars == <<locked, acquired, pc, lock, got, logsentence>>
storevars == <<individuals, classes, bms, last, tells>>

(***************************************************************************)
(* Bounds and the small sets the inputs are drawn from.                    *)
(***************************************************************************)
MaxTells == 3
NumThreads == 3

IndNames == {"$a", "$b"}
ClassNames == {"cow"}
Ctgs == {"A", "B", "C"}
Rels == {"R"}
Values == {0, 1}
Ops == {"=", "<", ">"}
Subjects == IndNames \cup ClassNames

T == "true"
F == "false"
N == "none"

IsInd(s) == s \in IndNames

(***************************************************************************)
(* Generic helpers for Python dicts (functions with a growing domain) and  *)
(* lists.                                                                  *)
(***************************************************************************)
EmptyDict == [x \in {} |-> 0]

Put(d, k, v) == [x \in (DOMAIN d) \cup {k} |-> IF x = k THEN v ELSE d[x]]

Range(s) == {s[i] : i \in DOMAIN s}

\* list.index(x) under a key: the first position whose element satisfies P, 0 if none
IndexOfParent(ls, parent) ==
    IF \E i \in DOMAIN ls : ls[i].parent = parent
    THEN CHOOSE i \in DOMAIN ls :
            /\ ls[i].parent = parent
            /\ \A j \in DOMAIN ls : ls[j].parent = parent => i <= j
    ELSE 0

(***************************************************************************)
(* Atoms.  A membership atom is a GroundedTerm (made by tell, or by a rule *)
(* substitution with ground=True) or a FreeTerm (made by the parser in ask *)
(* mode and inside sentences).  A relation atom is a RelationFunc whose    *)
(* first argument carries the value and the comparator.                    *)
(***************************************************************************)
GroundedTerm(parent, term, value) ==
    [cls |-> "GroundedTerm", parent |-> parent, term |-> term,
     value |-> value, op |-> "="]

FreeTerm(parent, term, value, op) ==
    [cls |-> "FreeTerm", parent |-> parent, term |-> term,
     value |-> value, op |-> op]

RelationFunc(func, args, value, op) ==
    [cls |-> "RelationFunc", func |-> func, args |-> args,
     value |-> value, op |-> op]

IsPredicate(p) == p.cls \in {"GroundedTerm", "FreeTerm"}
IsFunction(p) == p.cls = "RelationFunc"

\* LogFunction.get_args: the argument names, in order
get_args(f) == f.args

\* args_ID = hash(tuple(args_id)): the ordered argument names stand for their hash
args_ID(f) == f.args

\* GroundedTerm.__eq__: same parent and same term; the value is not compared
GroundedTerm_eq(self, other) ==
    other.parent = self.parent /\ other.term = self.term

\* FreeTerm.__eq__: the other atom's value against self's comparator and value
FreeTerm_eq(self, other) ==
    \/ self.op = "=" /\ other.value = self.value
    \/ self.op = ">" /\ other.value > self.value
    \/ self.op = "<" /\ other.value < self.value

\* pred == categ, dispatched on the class of the left operand
Pred_eq(self, other) ==
    IF self.cls = "GroundedTerm" THEN GroundedTerm_eq(self, other)
    ELSE FreeTerm_eq(self, other)

\* RelationFunc.chk_args_eq: True, or the reason the two are not comparable
chk_args_eq(self, other) ==
    /\ Len(other.args) = Len(self.args)
    /\ other.func = self.func
    /\ other.args = self.args

\* RelationFunc.__eq__ for comparable atoms: false when the comparator rejects
RelationFunc_eq(self, other) ==
    ~ \/ self.op = "=" /\ self.value # other.value
      \/ self.op = ">" /\ self.value > other.value
      \/ self.op = "<" /\ self.value < other.value

\* an update that leaves the stored atom as it is
update_keep(old, fact) == old

\* atom.update(fact): the stored atom takes the new value, in place
update(old, fact) == [old EXCEPT !.value = fact.value, !.op = fact.op]

(***************************************************************************)
(* Individual and Category objects.                                        *)
(***************************************************************************)
Individual(name) ==
    [name |-> name, categ |-> <<>>, relations |-> EmptyDict, cog |-> <<>>]

\* Category(name): no 'parents' and no 'relations' attribute until first use
Category(name) ==
    [name |-> name, cog |-> <<>>, hasParents |-> FALSE, parents |-> <<>>,
     hasRelations |-> FALSE, relations |-> EmptyDict, kind |-> "Category"]

Relation(name) == [Category(name) EXCEPT !.kind = "Relation"]

Individual_add_ctg_dup(ind, fact) ==
    [ind EXCEPT !.categ = Append(@, fact)]

\* Individual.add_ctg: append, or update in place the atom with the same parent
Individual_add_ctg(ind, fact) ==
    LET idx == IndexOfParent(ind.categ, fact.parent) IN
    IF idx = 0 THEN [ind EXCEPT !.categ = Append(@, fact)]
    ELSE [ind EXCEPT !.categ[idx] = update(@, fact)]

\* Category.add_ctg
Category_add_ctg(cls, fact) ==
    IF ~cls.hasParents
    THEN [cls EXCEPT !.hasParents = TRUE, !.parents = <<fact>>]
    ELSE LET idx == IndexOfParent(cls.parents, fact.parent) IN
         IF idx = 0 THEN [cls EXCEPT !.parents = Append(@, fact)]
         ELSE [cls EXCEPT !.parents[idx] = update(@, fact)]

\* a bucket that takes every atom handed to it, held arguments or not
add_rel_bucket_dup(rels, func) == Append(rels, func)

\* the shared body of Individual.add_rel and Category.add_rel once the bucket
\* for func.func exists: update the first atom with equal args, else nothing
add_rel_bucket(rels, func) ==
    IF \E i \in DOMAIN rels : chk_args_eq(rels[i], func)
    THEN LET i == CHOOSE i \in DOMAIN rels :
                     /\ chk_args_eq(rels[i], func)
                     /\ \A j \in DOMAIN rels : chk_args_eq(rels[j], func) => i <= j
         IN [rels EXCEPT ![i] = update(@, func)]
    ELSE rels

\* Individual.add_rel
Individual_add_rel(ind, func) ==
    IF func.func \notin DOMAIN ind.relations
    THEN [ind EXCEPT !.relations = Put(@, func.func, <<func>>)]
    ELSE [ind EXCEPT !.relations[func.func] = add_rel_bucket(@, func)]

\* Category.add_rel
Category_add_rel(cls, func) ==
    IF ~cls.hasRelations
    THEN [cls EXCEPT !.hasRelations = TRUE,
                     !.relations = Put(EmptyDict, func.func, <<func>>)]
    ELSE IF func.func \notin DOMAIN cls.relations
    THEN [cls EXCEPT !.relations = Put(@, func.func, <<func>>)]
    ELSE [cls EXCEPT !.relations[func.func] = add_rel_bucket(@, func)]

\* Individual.test_ctg / Category.test_ctg over the list of membership atoms
test_ctg_list(ls, pred) ==
    LET idx == IndexOfParent(ls, pred.parent) IN
    IF idx = 0 THEN N
    ELSE IF Pred_eq(pred, ls[idx]) THEN T ELSE F

Individual_test_ctg(ind, pred) == test_ctg_list(ind.categ, pred)

Category_test_ctg(cls, pred) ==
    IF ~cls.hasParents THEN N ELSE test_ctg_list(cls.parents, pred)

\* Individual.test_rel / Category.test_rel: the first atom with the same args_ID
test_rel(obj, func) ==
    IF func.func \notin DOMAIN obj.relations THEN N
    ELSE LET funcs == obj.relations[func.func] IN
         IF \E i \in DOMAIN funcs : args_ID(funcs[i]) = args_ID(func)
         THEN LET i == CHOOSE i \in DOMAIN funcs :
                     /\ args_ID(funcs[i]) = args_ID(func)
                     /\ \A j \in DOMAIN funcs :
                            args_ID(funcs[j]) = args_ID(func) => i <= j
              IN IF RelationFunc_eq(func, funcs[i]) THEN T ELSE F
         ELSE N

\* Individual.check_ctg / Category.check_ctg: the held categories among n
Individual_check_ctg(ind, n) ==
    {ind.categ[i].parent : i \in DOMAIN ind.categ} \cap n

Category_check_ctg(cls, n) ==
    IF ~cls.hasParents THEN {}
    ELSE {cls.parents[i].parent : i \in DOMAIN cls.parents} \cap n

\* Individual.get_rel() / Category.get_rel(): the relation names held
get_rel(obj) == DOMAIN obj.relations

(***************************************************************************)
(* Representation: a knowledge base kb is [individuals, classes, bms].     *)
(***************************************************************************)
KB == [individuals |-> individuals, classes |-> classes, bms |-> bms]

\* the end of up_memb: the category named by the atom is created when absent
up_memb_categ(kb, categ) ==
    IF categ \notin DOMAIN kb.classes
    THEN [kb EXCEPT !.classes = Put(@, categ, Category(categ))]
    ELSE kb

\* the start of up_memb: the atom is added to its subject, an individual
\* ('$' in subject) or a class, created when absent
up_memb_subject(kb, pred, subject) ==
    IF IsInd(subject)
    THEN [kb EXCEPT !.individuals =
            Put(@, subject,
                Individual_add_ctg(IF subject \in DOMAIN kb.individuals
                                   THEN kb.individuals[subject]
                                   ELSE Individual(subject), pred))]
    ELSE [kb EXCEPT !.classes =
            Put(@, subject,
                Category_add_ctg(IF subject \in DOMAIN kb.classes
                                 THEN kb.classes[subject]
                                 ELSE Category(subject), pred))]

\* Representation.up_memb
up_memb(kb, pred) ==
    up_memb_categ(up_memb_subject(kb, pred, pred.term), pred.parent)

\* the relation named by the atom is created, as a Relation, when absent
up_rel_relation(kb, relation) ==
    IF relation \notin DOMAIN kb.classes
    THEN [kb EXCEPT !.classes = Put(@, relation, Relation(relation))]
    ELSE kb

\* the atom is added to one of its arguments, an individual or a class,
\* created when absent
up_rel_subject(kb, func, subject) ==
    IF IsInd(subject)
    THEN [kb EXCEPT !.individuals =
            Put(@, subject,
                Individual_add_rel(IF subject \in DOMAIN kb.individuals
                                   THEN kb.individuals[subject]
                                   ELSE Individual(subject), func))]
    ELSE [kb EXCEPT !.classes =
            Put(@, subject,
                Category_add_rel(IF subject \in DOMAIN kb.classes
                                 THEN kb.classes[subject]
                                 ELSE Category(subject), func))]

\* one iteration of the loop of Representation.up_rel, for one argument name
up_rel_step(kb, func, subject) ==
    up_rel_relation(up_rel_subject(kb, func, subject), func.func)

RECURSIVE up_rel_loop(_, _, _)
up_rel_loop(kb, func, i) ==
    IF i > Len(get_args(func)) THEN kb
    ELSE up_rel_loop(up_rel_step(kb, func, get_args(func)[i]), func, i + 1)

\* Representation.up_rel
up_rel(kb, func) == up_rel_loop(kb, func, 1)

\* Representation.test_pred: a membership atom is looked up in kb.individuals
\* whatever its subject (a KeyError gives None); a relation atom is looked up
\* under its first argument only (the loop returns in its first iteration)
test_pred(kb, p) ==
    IF IsPredicate(p)
    THEN IF p.term \in DOMAIN kb.individuals
         THEN Individual_test_ctg(kb.individuals[p.term], p) ELSE N
    ELSE LET subject == get_args(p)[1] IN
         IF IsInd(subject)
         THEN IF subject \in DOMAIN kb.individuals
              THEN test_rel(kb.individuals[subject], p) ELSE N
         ELSE IF subject \in DOMAIN kb.classes
              THEN test_rel(kb.classes[subject], p) ELSE N


\* Representation.objs_by_ctg: subject -> the names among ctgs it holds, for the
\* individuals or for the classes; subjects holding none are left out
objs_by_ctg(kb, ctgs, type_) ==
    LET collect == IF type_ = "individuals" THEN kb.individuals ELSE kb.classes
        held(k) == IF type_ = "individuals"
                   THEN (get_rel(collect[k]) \cap ctgs)
                            \cup Individual_check_ctg(collect[k], ctgs)
                   ELSE (get_rel(collect[k]) \cap ctgs)
                            \cup Category_check_ctg(collect[k], ctgs)
        keys == {k \in DOMAIN collect : held(k) # {}}
    IN [k \in keys |-> held(k)]

\* the category or relation name of an atom
NameOf(p) == IF IsFunction(p) THEN p.func ELSE p.parent

\* the canonical key of an atom in the BmsWrapper container: its name, its
\* arguments, its comparator and its value
BmsKey(a) ==
    <<NameOf(a), IF IsFunction(a) THEN a.args ELSE <<a.term>>, a.op, a.value>>

\* BmsWrapper.add: the record of the atom, under its key, names what produced
\* it, "SELF" for a told atom or the sentence that asserted it
BmsWrapper_add(kb, a, form) == [kb EXCEPT !.bms = Put(@, BmsKey(a), form)]

\* dict.update
DictUpdate(d, e) ==
    [k \in (DOMAIN d) \cup (DOMAIN e) |-> IF k \in DOMAIN e THEN e[k] ELSE d[k]]

(***************************************************************************)
(* Sentences.  A LogSentence is a tree of particles; the library below is  *)
(* the set of sentence objects the model tells and saves.  'created' is    *)
(* the creation time the inference sorts the rules of a consequent by.     *)
(***************************************************************************)
LogicAtom(pred) == [cond |-> ":predicate:", pred |-> pred]
LogicConjunction(l, r) == [cond |-> "&&", next |-> <<l, r>>]
LogicIndCond(l, r) == [cond |-> "|>", next |-> <<l, r>>]
LogicDisjunction(l, r) == [cond |-> "||", next |-> <<l, r>>]
LogicImplication(l, r) == [cond |-> "=>", next |-> <<l, r>>]

SentenceIds == {"r1", "r2", "r3", "r4"}

\* r1  :vars:x: (A[x,u=1] |> B[x,u=1])
\* r2  :vars:x: (A[x,u=1] && B[x,u=1] |> C[x,u=1])
\* r3  :vars:x: (B[x,u=1] |> C[x,u=0])
\* r4  (A[$b,u=1] |> C[$b,u=1])            a sentence without variables
\* r5  :vars:x: (A[x,u=1] |> (B[x,u=1] || C[x,u=1]))
\* r6  :vars:x: (A[x,u=1] && C[x,u=1] |> A[x,u=0])    names A twice
\* r7  :vars:x,y: (A[x,u=1] && B[y,u=1] |> C[x,u=1])  two variables
\* r8  :vars:x: (B[x,u=1] |> A[x,u=1])                the converse of r1
Sentence(id) ==
    CASE id = "r1" ->
           [id |-> id, has_var_order |-> TRUE, var_order |-> <<"x">>, created |-> 1,
            start |-> LogicIndCond(LogicAtom(FreeTerm("A", "x", 1, "=")),
                                   LogicAtom(FreeTerm("B", "x", 1, "=")))]
      [] id = "r2" ->
           [id |-> id, has_var_order |-> TRUE, var_order |-> <<"x">>, created |-> 2,
            start |-> LogicIndCond(
                        LogicConjunction(LogicAtom(FreeTerm("A", "x", 1, "=")),
                                         LogicAtom(FreeTerm("B", "x", 1, "="))),
                        LogicAtom(FreeTerm("C", "x", 1, "=")))]
      [] id = "r3" ->
           [id |-> id, has_var_order |-> TRUE, var_order |-> <<"x">>, created |-> 3,
            start |-> LogicIndCond(LogicAtom(FreeTerm("B", "x", 1, "=")),
                                   LogicAtom(FreeTerm("C", "x", 0, "=")))]
      [] id = "r4" ->
           [id |-> id, has_var_order |-> FALSE, var_order |-> <<>>, created |-> 4,
            start |-> LogicIndCond(LogicAtom(FreeTerm("A", "$b", 1, "=")),
                                   LogicAtom(FreeTerm("C", "$b", 1, "=")))]
      [] id = "r5" ->
           [id |-> id, has_var_order |-> TRUE, var_order |-> <<"x">>, created |-> 5,
            start |-> LogicIndCond(
                        LogicAtom(FreeTerm("A", "x", 1, "=")),
                        LogicDisjunction(LogicAtom(FreeTerm("B", "x", 1, "=")),
                                         LogicAtom(FreeTerm("C", "x", 1, "="))))]
      [] id = "r6" ->
           [id |-> id, has_var_order |-> TRUE, var_order |-> <<"x">>, created |-> 6,
            start |-> LogicIndCond(
                        LogicConjunction(LogicAtom(FreeTerm("A", "x", 1, "=")),
                                         LogicAtom(FreeTerm("C", "x", 1, "="))),
                        LogicAtom(FreeTerm("A", "x", 0, "=")))]
      [] id = "r7" ->
           [id |-> id, has_var_order |-> TRUE, var_order |-> <<"x", "y">>,
            created |-> 7,
            start |-> LogicIndCond(
                        LogicConjunction(LogicAtom(FreeTerm("A", "x", 1, "=")),
                                         LogicAtom(FreeTerm("B", "y", 1, "="))),
                        LogicAtom(FreeTerm("C", "x", 1, "=")))]
      [] id = "r8" ->
           [id |-> id, has_var_order |-> TRUE, var_order |-> <<"x">>, created |-> 8,
            start |-> LogicIndCond(LogicAtom(FreeTerm("B", "x", 1, "=")),
                                   LogicAtom(FreeTerm("A", "x", 1, "=")))]

\* the predicates below a particle, in the order of sent.particles (preorder)
RECURSIVE PredsOf(_)
PredsOf(t) ==
    IF t.cond = ":predicate:" THEN <<t.pred>>
    ELSE PredsOf(t.next[1]) \o PredsOf(t.next[2])

\* LogSentence.get_all_preds
get_all_preds(sent) == PredsOf(sent.start)

\* LogSentence.get_preds: branch 'l' gives the atoms under next[0] of the top
\* conditional, any other branch value ('r', 'right', 'left') those under next[1]
get_preds(sent, branch) ==
    IF sent.start.cond \notin {"|>", "=>", "<=>"} THEN get_all_preds(sent)
    ELSE IF branch = "l" THEN PredsOf(sent.start.next[1])
    ELSE PredsOf(sent.start.next[2])

RECURSIVE NamesOf(_)
NamesOf(ps) == IF ps = <<>> THEN <<>> ELSE <<NameOf(Head(ps))>> \o NamesOf(Tail(ps))

(***************************************************************************)
(* The sentence evaluator.  'assigned' maps variable names to constants.   *)
(***************************************************************************)
\* LogicAtom.isvar
isvar(term, assigned) == IF term \in DOMAIN assigned THEN assigned[term] ELSE term

\* FreeTerm.substitute(sbj): a copy with the term replaced
FreeTerm_substitute(pred, sbj) == [pred EXCEPT !.term = sbj]

\* FreeTerm.substitute(sbj, ground=True): a GroundedTerm with the FreeTerm's fields
FreeTerm_ground(pred, sbj) == [pred EXCEPT !.cls = "GroundedTerm", !.term = sbj]

\* LogicAtom.resolve for a membership atom
LogicAtom_resolve(pred, kb, assigned) ==
    LET sbj == isvar(pred.term, assigned)
        test == FreeTerm_substitute(pred, sbj)
    IN IF ~IsInd(sbj)
       THEN IF sbj \in DOMAIN kb.classes
            THEN Category_test_ctg(kb.classes[sbj], test) ELSE N
       ELSE IF sbj \in DOMAIN kb.individuals
            THEN Individual_test_ctg(kb.individuals[sbj], test) ELSE N

\* LogicConjunction.resolve: the value returned to the parent from _results
LogicConjunction_value(results) ==
    IF Len(results) > 0 /\ \A i \in DOMAIN results : results[i] = T THEN T
    ELSE IF \E i \in DOMAIN results : results[i] = F THEN F
    ELSE N

\* LogicDisjunction.resolve: True when a child is True; otherwise all() of the
\* list [True for x in _results if x is False], a list of Trues, decides
\* between False and None
LogicDisjunction_value(results) ==
    IF Len(results) > 0 /\ \E i \in DOMAIN results : results[i] = T THEN T
    ELSE IF \A x \in {TRUE : i \in {j \in DOMAIN results : results[j] = F}} : x
    THEN F
    ELSE N

\* Python's 'a and b' on truth values: a when a is falsy (False, None), else b
PyAnd(a, b) == IF a \in {F, N} THEN a ELSE b

\* LogicImplication.resolve: None when (_results[0] and _results[1]) is None
LogicImplication_value(results) ==
    IF PyAnd(results[1], results[2]) = N THEN N
    ELSE IF results[2] = F /\ results[1] = T THEN F
    ELSE T

\* the value a connective gives for the results of its children
Particle_value(cond, results) ==
    CASE cond = "&&" -> LogicConjunction_value(results)
      [] cond = "||" -> LogicDisjunction_value(results)
      [] cond = "=>" -> LogicImplication_value(results)

\* particle.resolve: the truth value the particle returns to its parent
RECURSIVE resolve(_, _, _)
resolve(t, kb, assigned) ==
    IF t.cond = ":predicate:" THEN LogicAtom_resolve(t.pred, kb, assigned)
    ELSE Particle_value(t.cond, <<resolve(t.next[1], kb, assigned),
                                  resolve(t.next[2], kb, assigned)>>)

\* LogicAtom.substitute / LogicConjunction.substitute: assert the atoms below t;
\* st is [kb, result, proof, raised] with result the list proof.result and
\* proof the sentence asserting; the atom is recorded in the container, then
\* stored.  The other connectives inherit Particle.substitute, which raises
\* AssertionError: raised is set and nothing more is asserted.
RECURSIVE substitute(_, _, _)
substitute(t, st, assigned) ==
    IF st.raised THEN st
    ELSE IF t.cond \notin {":predicate:", "&&"} THEN [st EXCEPT !.raised = TRUE]
    ELSE IF t.cond = ":predicate:"
    THEN LET sbj == isvar(t.pred.term, assigned)
             pred == FreeTerm_ground(t.pred, sbj)
         IN [st EXCEPT !.kb = up_memb(BmsWrapper_add(@, pred, st.proof), pred),
                       !.result = Append(@, pred)]
    ELSE substitute(t.next[2], substitute(t.next[1], st, assigned), assigned)

\* the result of a call: proof.result is a list of asserted atoms, False, or
\* was never set (None); or the call raised
Asserted(st) ==
    [kb |-> st.kb, kind |-> IF st.raised THEN "raise" ELSE "list",
     atoms |-> st.result]
NoResult(kb) == [kb |-> kb, kind |-> "none", atoms |-> <<>>]
FalseResult(kb) == [kb |-> kb, kind |-> "false", atoms |-> <<>>]

\* a solve_proof that substitutes the right side whatever the left side gave
LogicIndCond_after_resolve_always(start, kb, assigned, lhs, proof) ==
    Asserted(substitute(start.next[2],
                        [kb |-> kb, result |-> <<>>, proof |-> proof,
                         raised |-> FALSE],
                        assigned))

\* LogicIndCond.solve_proof once the left side has resolved to lhs: substitute
\* the right side when it is True, set the result to False when it is False
LogicIndCond_after_resolve(start, kb, assigned, lhs, proof) ==
    IF lhs = T
    THEN Asserted(substitute(start.next[2],
                             [kb |-> kb, result |-> <<>>, proof |-> proof,
                              raised |-> FALSE],
                             assigned))
    ELSE IF lhs = F THEN FalseResult(kb)
    ELSE NoResult(kb)

\* LogicIndCond.solve_proof
LogicIndCond_solve_proof(start, kb, assigned, proof) ==
    LogicIndCond_after_resolve(start, kb, assigned,
                               resolve(start.next[1], kb, assigned), proof)

\* the variable bindings var_order[n] := args[n]
Assign(sent, args) ==
    [v \in Range(sent.var_order) |->
        args[CHOOSE n \in DOMAIN sent.var_order : sent.var_order[n] = v]]

\* LogSentence.__call__(ag, args) with args the sequence the call iterates over:
\* the tuple of constants unify passes, or the characters of the name
\* save_rule passes (args = args[0] is taken whatever the type of args[0]).
\* A sentence with variables is evaluated only when it gets as many arguments
\* as variables and every argument is a key of ag.individuals.
LogSentence_call(sent, kb, args) ==
    IF \/ ~sent.has_var_order
       \/ /\ Len(sent.var_order) = Len(args)
          /\ \A n \in DOMAIN args : args[n] \in DOMAIN kb.individuals
    THEN LogicIndCond_solve_proof(
            sent.start, kb,
            IF sent.has_var_order THEN Assign(sent, args) ELSE EmptyDict,
            sent.id)
    ELSE NoResult(kb)

\* the characters of a name: the n-th is the pair <<name, n>>, never the key of
\* an individual (a key is a whole name, '$' followed by at least one character)
CharsOf(name) == [n \in 1..Len(name) |-> <<name, n>>]


(***************************************************************************)
(* Insertion-ordered dicts (the results map, the query terms, the nodes):  *)
(* a sequence of [k, v] entries in insertion order.                        *)
(***************************************************************************)
OHas(d, k) == \E i \in DOMAIN d : d[i].k = k

OIdx(d, k) == CHOOSE i \in DOMAIN d : d[i].k = k

OGet(d, k) == d[OIdx(d, k)].v

OSet(d, k, v) ==
    IF OHas(d, k) THEN [d EXCEPT ![OIdx(d, k)].v = v]
    ELSE Append(d, [k |-> k, v |-> v])

OSetDefault(d, k, v) == IF OHas(d, k) THEN d ELSE Append(d, [k |-> k, v |-> v])

\* results[subject][name] = value
ResSet(results, subject, name, value) ==
    LET inner == IF OHas(results, subject) THEN OGet(results, subject) ELSE <<>>
    IN OSet(results, subject, OSet(inner, name, value))

\* results[subject].setdefault(name, value), results[subject] existing
ResSetDefault(results, subject, name, value) ==
    OSet(results, subject, OSetDefault(OGet(results, subject), name, value))

\* terms[subject].append(p), creating the list when the key is new
TermsAppend(terms, subject, p) ==
    IF OHas(terms, subject)
    THEN OSet(terms, subject, Append(OGet(terms, subject), p))
    ELSE OSet(terms, subject, <<p>>)

(***************************************************************************)
(* Inference.get_query for a parsed query string: the atoms the store      *)
(* already answers true go to results, the others to the query terms, and  *)
(* their names seed the rule discovery.  g is [results, terms, ctgs].      *)
(***************************************************************************)
\* get_query.assert_memb
get_query_assert_memb(kb, g, p) ==
    IF test_pred(kb, p) = T
    THEN [g EXCEPT !.results = ResSet(@, p.term, p.parent, T)]
    ELSE [g EXCEPT !.terms = TermsAppend(@, p.term, p),
                   !.ctgs = Append(@, p.parent)]

RECURSIVE assert_rel_args(_, _, _, _, _)
assert_rel_args(g, p, result, ids, i) ==
    IF i > Len(ids) THEN g
    ELSE assert_rel_args(
            IF result = T
            THEN [g EXCEPT !.results = ResSet(@, ids[i], p.func, T)]
            ELSE [g EXCEPT !.terms = TermsAppend(@, ids[i], p)],
            p, result, ids, i + 1)

\* get_query.assert_rel
get_query_assert_rel(kb, g, p) ==
    LET result == test_pred(kb, p)
        g1 == assert_rel_args(g, p, result, get_args(p), 1)
    IN IF result # T THEN [g1 EXCEPT !.ctgs = Append(@, p.func)] ELSE g1

RECURSIVE get_query_loop(_, _, _, _)
get_query_loop(kb, g, atoms, i) ==
    IF i > Len(atoms) THEN g
    ELSE get_query_loop(
            kb,
            IF IsFunction(atoms[i]) THEN get_query_assert_rel(kb, g, atoms[i])
            ELSE get_query_assert_memb(kb, g, atoms[i]),
            atoms, i + 1)

\* the atoms of the entries of query.queries, the preds of an entry before
\* its funcs
RECURSIVE QueriesAtoms(_)
QueriesAtoms(qs) ==
    IF qs = <<>> THEN <<>>
    ELSE Head(qs).preds \o Head(qs).funcs \o QueriesAtoms(Tail(qs))

\* Inference.get_query: the relation atoms of the query first, then the
\* membership atoms, then the atoms of the queries with variables, whose
\* variables are collected in vrs
get_query(kb, q) ==
    get_query_loop(kb,
                   [results |-> <<>>, terms |-> <<>>, ctgs |-> <<>>,
                    vrs |-> UNION {Range(q.queries[i].var_order) :
                                      i \in DOMAIN q.queries}],
                   q.assert_rel \o q.assert_memb \o QueriesAtoms(q.queries), 1)

(***************************************************************************)
(* Inference.get_rules: the worklist over names.                           *)
(* r is [ctgs, done, rules, nodes]; nodes maps a consequent name to its    *)
(* InferNodes sorted by rule.created.                                      *)
(***************************************************************************)
\* InferNode.__init__: subs[v] is the set of names of the atoms of 'ants' whose
\* term is the variable v
InferNode(nc, ants, const, rule) ==
    [rule |-> rule.id, const |-> const, ants |-> nc, created |-> rule.created,
     vars |-> IF rule.has_var_order THEN rule.var_order ELSE <<>>,
     subs |-> [v \in (IF rule.has_var_order THEN Range(rule.var_order) ELSE {}) |->
                 {NameOf(ants[i]) : i \in {j \in DOMAIN ants : ants[j].term = v}}]]

\* SortedListWithKey.add: after the elements whose key is not greater
SortedAdd(ls, node) ==
    LET n == Cardinality({i \in DOMAIN ls : ls[i].created <= node.created})
    IN SubSeq(ls, 1, n) \o <<node>> \o SubSeq(ls, n + 1, Len(ls))

RECURSIVE mk_node_loop(_, _, _, _, _, _)
mk_node_loop(nodes, atom_pred, nc, preds, sent, i) ==
    IF i > Len(atom_pred) THEN nodes
    ELSE LET node == InferNode(nc, preds, NameOf(atom_pred[i]), sent)
             ls == IF OHas(nodes, node.const) THEN OGet(nodes, node.const) ELSE <<>>
         IN mk_node_loop(OSet(nodes, node.const, SortedAdd(ls, node)),
                         atom_pred, nc, preds, sent, i + 1)

\* get_rules.mk_node(pos): one node per atom of sent.get_preds(branch=pos)
mk_node(nodes, pos, nc, preds, sent) ==
    mk_node_loop(nodes, get_preds(sent, pos), nc, preds, sent, 1)

\* [e for e in nc if e not in self.done and e not in self.ctgs]
RECURSIVE Unseen(_, _, _)
Unseen(nc, done, ctgs) ==
    IF nc = <<>> THEN <<>>
    ELSE (IF Head(nc) \notin Range(done) /\ Head(nc) \notin Range(ctgs)
          THEN <<Head(nc)>> ELSE <<>>) \o Unseen(Tail(nc), done, ctgs)

\* the second half of the body of 'for sent in chk_rules': when the popped name
\* c is among the left-side names nc, nodes are made again with the right side
\* as antecedents
get_rules_sent_left(r, c, sent, nc, preds2) ==
    IF c \in Range(nc)
    THEN [r EXCEPT !.nodes = mk_node(@, "left", NamesOf(preds2), preds2, sent),
                   !.ctgs = @ \o Unseen(NamesOf(preds2), r.done, @)]
    ELSE r

\* the first half: nodes for the right-side atoms, the left-side names queued
get_rules_sent_right(r, sent, nc, preds) ==
    [r EXCEPT !.nodes = mk_node(@, "right", nc, preds, sent),
              !.ctgs = @ \o Unseen(nc, r.done, @)]

\* the body of 'for sent in chk_rules' for one sentence
get_rules_sent(r, c, sent) ==
    get_rules_sent_left(
        get_rules_sent_right(r, sent, NamesOf(get_preds(sent, "l")),
                             get_preds(sent, "l")),
        c, sent, NamesOf(get_preds(sent, "l")), get_preds(sent, "right"))

RECURSIVE get_rules_sents(_, _, _, _)
get_rules_sents(r, c, chk_rules, i) ==
    IF i > Len(chk_rules) THEN r
    ELSE get_rules_sents(get_rules_sent(r, c, Sentence(chk_rules[i])),
                         c, chk_rules, i + 1)

\* OrderedSet(cog) - self.rules, in the order of cog
NewRules(cog, rules) == SelectSeq(cog, LAMBDA x : x \notin rules)

RECURSIVE get_rules(_, _)

\* get_rules after c was popped and appended to done; chk_rules are the rules
\* indexed under c that were not seen yet
get_rules_name(kb, r, c, chk_rules) ==
    get_rules(kb, [get_rules_sents(r, c, chk_rules, 1)
                      EXCEPT !.rules = @ \cup Range(chk_rules)])

\* the pop of get_rules: a name that is no key of kb.classes raises
\* NoSolutionError, and infer_facts calls get_rules again
get_rules_pop(kb, r, c) ==
    IF c \notin DOMAIN kb.classes THEN get_rules(kb, r)
    ELSE get_rules_name(kb, r, c, NewRules(kb.classes[c].cog, r.rules))

\* Inference.get_rules, together with the loop of infer_facts that calls it
\* again after a NoSolutionError
get_rules(kb, r) ==
    IF Len(r.ctgs) = 0 THEN r
    ELSE get_rules_pop(kb,
                       [r EXCEPT !.ctgs = SubSeq(@, 1, Len(@) - 1),
                                 !.done = Append(@, r.ctgs[Len(r.ctgs)])],
                       r.ctgs[Len(r.ctgs)])


(***************************************************************************)
(* Inference.unify and the fixpoint loop of infer_facts.query.             *)
(* u is [kb, obj_dic, results, queue, updated]; aq is self.actv_q as       *)
(* [obj, name, pred]; ord is the order in which the candidate set of       *)
(* map_vars is iterated (a Python set of names: unspecified).              *)
(***************************************************************************)
\* Inference.map_vars: subactv = [set()] * subs_num is one set shared by all the
\* variables; an object enters it when it holds every name some variable needs
map_vars(node, obj_dic) ==
    LET shared == {obj \in DOMAIN obj_dic :
                     \E v \in DOMAIN node.subs :
                        /\ Cardinality(obj_dic[obj]) >= Cardinality(node.subs[v])
                        /\ Cardinality(obj_dic[obj] \cap node.subs[v])
                              = Cardinality(node.subs[v])}
    IN [i \in 1..Len(node.vars) |-> shared]

\* the elements of a set in the order ord lists them
RECURSIVE InOrder(_, _)
InOrder(set, ord) ==
    IF ord = <<>> THEN <<>>
    ELSE (IF Head(ord) \in set THEN <<Head(ord)>> ELSE <<>>) \o InOrder(set, Tail(ord))

RECURSIVE Prepend(_, _)
Prepend(x, tuples) ==
    IF tuples = <<>> THEN <<>>
    ELSE <<<<x>> \o Head(tuples)>> \o Prepend(x, Tail(tuples))

RECURSIVE ProductFrom(_, _, _)
ProductFrom(elems, rest, i) ==
    IF i > Len(elems) THEN <<>>
    ELSE Prepend(elems[i], rest) \o ProductFrom(elems, rest, i + 1)

\* list(itertools.product) over the candidate sets: the rightmost position advances fastest
RECURSIVE Product(_, _)
Product(mapped, ord) ==
    IF mapped = <<>> THEN << <<>> >>
    ELSE ProductFrom(InOrder(Head(mapped), ord), Product(Tail(mapped), ord), 1)

RECURSIVE Reverse(_)
Reverse(ls) == IF ls = <<>> THEN <<>> ELSE Reverse(Tail(ls)) \o <<Head(ls)>>

\* unify.add_ctg: obj_dic.setdefault(obj, {cat}) for every asserted atom, and
\* results[query_obj][query] from comparing the query atom with it
RECURSIVE unify_add_ctg(_, _, _)
unify_add_ctg(u, proof_result, aq) ==
    IF proof_result = <<>> THEN u
    ELSE LET r == Head(proof_result)
             u1 == IF r.term \in DOMAIN u.obj_dic THEN u
                   ELSE [u EXCEPT !.obj_dic = Put(@, r.term, {r.parent})]
             u2 == IF IsPredicate(aq.pred)
                   THEN [u1 EXCEPT !.results =
                           ResSet(@, aq.obj, aq.name,
                                  IF Pred_eq(aq.pred, r) THEN T ELSE F)]
                   ELSE u1
         IN unify_add_ctg(u2, Tail(proof_result), aq)

\* the history of the calls node.rule(self.kb, args) of one query: calls is
\* the set of (node, args) invoked so far, twice those invoked again, and seq
\* the calls of the running pass in order, each with what it returned, after
\* a mark for the unify(p) that made them
Visited(u, p) ==
    [u EXCEPT !.seq = Append(@, [node |-> <<p, 0>>, rule |-> "-", args |-> <<>>,
                                 kind |-> "unify", atoms |-> <<>>])]

Called(u, node, key, args, res) ==
    [u EXCEPT !.twice = IF <<key, args>> \in u.calls THEN @ \cup {<<key, args>>}
                        ELSE @,
              !.calls = @ \cup {<<key, args>>},
              !.seq = Append(@, [node |-> key, rule |-> node.rule, args |-> args,
                                 kind |-> res.kind, atoms |-> res.atoms])]

RECURSIVE unify_try(_, _, _, _, _, _)

\* a call whose arguments are never memoized
unify_called_nomemo(u, node, key, mapped, i, aq, res) ==
    IF res.kind = "raise" THEN [u EXCEPT !.kb = res.kb, !.raised = TRUE]
    ELSE IF res.kind = "list"
    THEN unify_add_ctg([u EXCEPT !.kb = res.kb, !.updated = TRUE], res.atoms, aq)
    ELSE unify_try(u, node, key, mapped, i + 1, aq)

\* unify after node.rule(self.kb, args) returned res: a list of asserted atoms
\* marks the update, runs add_ctg, memoizes the arguments and ends the loop;
\* an exception of the call leaves the inference (u.raised)
unify_called(u, node, key, mapped, i, aq, res) ==
    IF res.kind = "raise" THEN [u EXCEPT !.kb = res.kb, !.raised = TRUE]
    ELSE IF res.kind = "list"
    THEN [unify_add_ctg([u EXCEPT !.kb = res.kb, !.updated = TRUE], res.atoms, aq)
             EXCEPT !.queue = @ \cup {<<key, mapped[i]>>}]
    ELSE unify_try(u, node, key, mapped, i + 1, aq)

\* the loop 'while not proof_result and (len(mapped) > 0)' of unify over the
\* argument tuples in pop order; key identifies the node in self.queue
unify_try(u, node, key, mapped, i, aq) ==
    IF u.raised \/ i > Len(mapped) THEN u
    ELSE IF <<key, mapped[i]>> \in u.queue
    THEN unify_try(u, node, key, mapped, i + 1, aq)
    ELSE unify_called(Called(u, node, key, mapped[i],
                             LogSentence_call(Sentence(node.rule), u.kb, mapped[i])),
                      node, key, mapped, i, aq,
                      LogSentence_call(Sentence(node.rule), u.kb, mapped[i]))

\* the loop 'for node in self.nodes[p]' of unify; w is [u, chk]
RECURSIVE unify_nodes(_, _, _, _, _, _, _)
unify_nodes(w, p, ls, i, done, aq, ord) ==
    IF i > Len(ls) THEN w
    ELSE unify_nodes(
            [u |-> unify_try(w.u, ls[i], <<p, i>>,
                             Reverse(Product(map_vars(ls[i], w.u.obj_dic), ord)),
                             1, aq),
             chk |-> IF p \notin Range(done) THEN ls[i].ants \o w.chk ELSE w.chk],
            p, ls, i + 1, done, aq, ord)

\* the end of unify, w being [u, chk] after the nodes of p: True when the
\* queried name is in obj_dic for the queried object, else the next name of chk
\* is unified (and the value of that call is dropped)
RECURSIVE unify(_, _, _, _, _, _, _)
unify_check(w, p, done, aq, nodes, ord) ==
    IF aq.obj \in DOMAIN w.u.obj_dic /\ aq.name \in w.u.obj_dic[aq.obj]
    THEN [u |-> w.u, ret |-> TRUE]
    ELSE IF Len(w.chk) > 0
    THEN [u |-> unify(w.u, Head(w.chk), Tail(w.chk), Append(done, p),
                      aq, nodes, ord).u,
          ret |-> FALSE]
    ELSE [u |-> w.u, ret |-> FALSE]

\* Inference.unify: returns [u, ret]; ret is TRUE only when this call itself
\* returns True
unify(u, p, chk, done, aq, nodes, ord) ==
    unify_check(IF OHas(nodes, p)
                THEN unify_nodes([u |-> Visited(u, p), chk |-> chk], p,
                                 OGet(nodes, p), 1,
                                 done, aq, ord)
                ELSE [u |-> u, chk |-> chk],
                p, done, aq, nodes, ord)

\* the while loop of infer_facts.query: unify runs again while it returned
\* nothing and some rule application updated the store
RECURSIVE query_loop(_, _, _, _, _)
query_again(x, q, aq, nodes, ord) ==
    IF ~x.ret /\ x.u.updated THEN query_loop(x.u, q, aq, nodes, ord)
    ELSE x.u

query_loop(u, q, aq, nodes, ord) ==
    query_again(unify([u EXCEPT !.updated = FALSE], q, <<>>, <<>>, aq, nodes, ord),
                q, aq, nodes, ord)

\* infer_facts.query: the memoization table is emptied, then the loop runs
infer_facts_query(u, q, aq, nodes, ord) ==
    query_loop([u EXCEPT !.queue = {}], q, aq, nodes, ord)

\* one iteration of 'for pred in preds' of infer_facts: the query runs unless
\* results[var] already has the name, then the entry defaults to None
infer_pred(u, var, pred, nodes, ord) ==
    [(IF ~OHas(OGet(u.results, var), NameOf(pred))
      THEN infer_facts_query(u, NameOf(pred),
                             [obj |-> var, name |-> NameOf(pred), pred |-> pred],
                             nodes, ord)
      ELSE u)
        EXCEPT !.results = ResSetDefault(@, var, NameOf(pred), N)]

\* the loop 'for pred in preds' of infer_facts for a subject that is no variable
RECURSIVE infer_preds(_, _, _, _, _, _)
infer_preds(u, var, preds, i, nodes, ord) ==
    IF i > Len(preds) THEN u
    ELSE infer_preds(infer_pred(u, var, preds[i], nodes, ord),
                     var, preds, i + 1, nodes, ord)

\* the branch 'if var in self.vrs' of infer_facts: the first object of obj_dic
\* raises, NotImplementedError for a relation atom and, for a membership
\* atom, AttributeError from make_fact(pred, 'grounded_term', from_free=True),
\* which GroundedTerm.__init__ reads as fromfree=False and builds the atom
\* from pred.args
infer_vars(u, preds) ==
    IF preds # <<>> /\ DOMAIN u.obj_dic # {} THEN [u EXCEPT !.raised = TRUE]
    ELSE u

\* the loop 'for var, preds in self.query.items()' of infer_facts
RECURSIVE infer_terms(_, _, _, _, _)
infer_terms(u, terms, i, nodes, ord) ==
    IF u.raised \/ i > Len(terms) THEN u
    ELSE infer_terms(
            IF terms[i].k \in u.vrs THEN infer_vars(u, terms[i].v)
            ELSE infer_preds([u EXCEPT !.results = OSetDefault(@, terms[i].k, <<>>)],
                             terms[i].k, terms[i].v, 1, nodes, ord),
            terms, i + 1, nodes, ord)

\* the Inference object after get_query and get_rules, with its object
\* dictionary for the names seen (chk_ctgs)
Inference(kb, g, r) ==
    [kb |-> kb,
     obj_dic |-> DictUpdate(objs_by_ctg(kb, Range(r.done), "individuals"),
                            objs_by_ctg(kb, Range(r.done), "classes")),
     results |-> g.results, queue |-> {}, updated |-> FALSE,
     vrs |-> g.vrs, raised |-> FALSE,
     calls |-> {}, twice |-> {}, seq |-> <<>>]

\* infer_facts after rule discovery: the object dictionary is fetched for the
\* names seen (chk_ctgs) and the query terms are inferred
infer_facts_start(kb, g, r, ord) ==
    infer_terms(Inference(kb, g, r), g.terms, 1, r.nodes, ord)

\* infer_facts after get_query
infer_facts_rules(kb, g, ord) ==
    infer_facts_start(kb, g,
                      get_rules(kb, [ctgs |-> g.ctgs, done |-> <<>>,
                                     rules |-> {}, nodes |-> <<>>]),
                      ord)

\* Inference.infer_facts: the final [kb, results, ...] of the inference
infer_facts(kb, q, ord) == infer_facts_rules(kb, get_query(kb, q), ord)

\* the values of the results map in the order ask visits them
RECURSIVE Flatten(_)
Flatten(results) ==
    IF results = <<>> THEN <<>>
    ELSE [i \in DOMAIN Head(results).v |-> Head(results).v[i].v]
            \o Flatten(Tail(results))

\* the loop of Representation.ask with single=True: the first entry that is
\* False or None decides
ask_single(vals) ==
    IF \E i \in DOMAIN vals : vals[i] # T
    THEN vals[CHOOSE i \in DOMAIN vals :
                 /\ vals[i] # T
                 /\ \A j \in DOMAIN vals : vals[j] # T => i <= j]
    ELSE T

\* Representation.ask(sent, single=True) given the finished inference, or the
\* exception that left it
ask_answer(inf_proc) ==
    [kb |-> inf_proc.kb,
     results |-> IF inf_proc.raised THEN <<>> ELSE inf_proc.results,
     res |-> IF inf_proc.raised THEN "raise"
             ELSE ask_single(Flatten(inf_proc.results))]

\* Representation.ask(sent, single=True): [kb, results, res]
ask(kb, q, ord) == ask_answer(infer_facts(kb, q, ord))

\* the loop 'for p in preds' of save_rule: the sentence is added to the cog of
\* classes[name], or classes[name] is replaced by a new Category / Relation
\* holding only this sentence
RECURSIVE save_rule_index(_, _, _, _)
save_rule_index(kb, proof, preds, i) ==
    IF i > Len(preds) THEN kb
    ELSE save_rule_index(
            IF NameOf(preds[i]) \in DOMAIN kb.classes
                  /\ proof.id \notin Range(kb.classes[NameOf(preds[i])].cog)
            THEN [kb EXCEPT !.classes[NameOf(preds[i])].cog = Append(@, proof.id)]
            ELSE [kb EXCEPT !.classes =
                    Put(@, NameOf(preds[i]),
                        [(IF IsFunction(preds[i]) THEN Relation(NameOf(preds[i]))
                          ELSE Category(NameOf(preds[i])))
                            EXCEPT !.cog = <<proof.id>>])],
            proof, preds, i + 1)

\* the loop 'for obj in obj_dic.keys(): proof(self, obj)' of save_rule; a call
\* only adds or updates the atoms of the sentence, whatever the order
RECURSIVE save_rule_run(_, _, _)
save_rule_run(kb, proof, objs) ==
    IF objs = {} THEN kb
    ELSE save_rule_run(
            LogSentence_call(proof, kb, CharsOf(CHOOSE o \in objs : TRUE)).kb,
            proof, objs \ {CHOOSE o \in objs : TRUE})

\* save_rule once the sentence is indexed: it is called with every subject
\* that holds one of its names
save_rule_forward(kb, proof, n) ==
    save_rule_run(kb, proof,
                  (DOMAIN objs_by_ctg(kb, n, "individuals"))
                      \cup (DOMAIN objs_by_ctg(kb, n, "classes")))

\* Representation.save_rule
save_rule(kb, proof) ==
    save_rule_forward(save_rule_index(kb, proof, get_all_preds(proof), 1),
                      proof, Range(NamesOf(get_all_preds(proof))))

(***************************************************************************)
(* Representation.tell: every membership atom, relation atom and rule of   *)
(* the parsed string is stored, in this order, and each told atom is       *)
(* recorded in the BmsWrapper container.                                   *)
(***************************************************************************)
ParseResults(memb, rel, rules) ==
    [assert_memb |-> memb, assert_rel |-> rel, assert_rules |-> rules]

\* an atom constructor that accepts any value
LogPredicate_init_any(a) == TRUE

\* LogPredicate.__init__: a membership atom whose value is above 1 or below 0
\* is not built (AssertionError)
LogPredicate_init_ok(a) == ~(a.value > 1 \/ a.value < 0)

\* LogFunction.__init__: the same test on the value of a relation atom
LogFunction_init_ok(f) == ~(f.value > 1 \/ f.value < 0)

\* logic_parser returns the batch: every atom of the string was built
logic_parser_ok(results) ==
    /\ \A i \in DOMAIN results.assert_memb :
          LogPredicate_init_ok(results.assert_memb[i])
    /\ \A i \in DOMAIN results.assert_rel :
          LogFunction_init_ok(results.assert_rel[i])

\* the loop 'for a in results.assert_memb'
RECURSIVE tell_memb(_, _, _)
tell_memb(kb, atoms, i) ==
    IF i > Len(atoms) THEN kb
    ELSE tell_memb(BmsWrapper_add(up_memb(kb, atoms[i]), atoms[i], "SELF"),
                   atoms, i + 1)

\* the loop 'for a in results.assert_rel'
RECURSIVE tell_rel(_, _, _)
tell_rel(kb, atoms, i) ==
    IF i > Len(atoms) THEN kb
    ELSE tell_rel(BmsWrapper_add(up_rel(kb, atoms[i]), atoms[i], "SELF"),
                  atoms, i + 1)

\* the loop 'for a in results.assert_rules'
RECURSIVE tell_rules(_, _, _)
tell_rules(kb, ids, i) ==
    IF i > Len(ids) THEN kb
    ELSE tell_rules(save_rule(kb, Sentence(ids[i])), ids, i + 1)

tell(kb, results) ==
    tell_rules(tell_rel(tell_memb(kb, results.assert_memb, 1),
                        results.assert_rel, 1),
               results.assert_rules, 1)

(***************************************************************************)
(* The state machine.  'last' records the last operation, its argument and *)
(* what it returned; 'tells' counts the tell calls that stored.            *)
(***************************************************************************)
\* tell("c[s,u=v]"), and one string asserting two atoms
TellMembAtoms ==
    {<<GroundedTerm(c, "$a", v)>> : c \in {"A", "B"}, v \in Values}
        \cup {<<GroundedTerm("A", s, 1)>> : s \in {"$b", "cow"}}
        \cup {<<GroundedTerm("A", "$b", 1), GroundedTerm("B", "$b", 1)>>}

\* tell("<R[o,u=v;s]>")
TellRelAtoms ==
    {RelationFunc("R", <<"$a", "$b">>, v, "=") : v \in Values}
        \cup {RelationFunc("R", <<"$b", "$a">>, 1, "=")}

\* the parsed queries of ask: assert_rel and assert_memb of the parse result
MembQuery(atoms) ==
    [assert_rel |-> <<>>, assert_memb |-> atoms, queries |-> <<>>]
RelQuery(atoms) ==
    [assert_rel |-> atoms, assert_memb |-> <<>>, queries |-> <<>>]

\* the parsed query ':vars:x: (...)': one entry of queries
VarQuery(preds, funcs) ==
    [assert_rel |-> <<>>, assert_memb |-> <<>>,
     queries |-> <<[var_order |-> <<"x">>, preds |-> preds, funcs |-> funcs]>>]

Queries ==
    {MembQuery(<<FreeTerm(c, "$a", v, "=")>>) : c \in {"B", "C"}, v \in Values}
    \cup {MembQuery(<<FreeTerm("C", "$b", 1, "=")>>)}
    \cup {MembQuery(<<FreeTerm("A", "cow", 1, "=")>>)}
    \cup {MembQuery(<<FreeTerm("C", "$a", 1, "="), FreeTerm("B", "$a", 0, "=")>>)}
    \cup {RelQuery(<<RelationFunc("R", <<"$a", "$b">>, 1, "=")>>)}

\* the atoms the test_pred operation is called with
Probes ==
    {FreeTerm("A", "$a", 1, "="), FreeTerm("A", "$a", 0, "<"),
     GroundedTerm("A", "$a", 0), FreeTerm("A", "cow", 1, "="),
     RelationFunc("R", <<"$a", "$b">>, 1, "=")}

\* the iteration orders of a set of candidate names; a class name is placed
\* last: a call with a class name returns at once and changes nothing
Orders == {<<"$a", "$b", "cow">>, <<"$b", "$a", "cow">>}

Done(op, arg, res, results) ==
    [op |-> op, arg |-> arg, res |-> res, results |-> results]

\* Representation.__init__: _locked = {}; no call is running.  One atom
\* key is followed: locked is the Lock registered under it in _locked (0:
\* none), acquired the Lock objects that are locked, pc[t] the statement call t
\* is at, lock[t] the Lock object the call last read or made and got[t] what
\* its lock.acquire(timeout=5) returned.  logsentence is the LogSentence
\* object the calls share: its attributes ag, assigned and result, and
\* results, the _results list of its top particle.
Threads == 1..NumThreads

NoAttr == [kind |-> "none", atoms |-> <<>>]

LogSentence(id) ==
    [id |-> id, has_ag |-> FALSE, assigned |-> EmptyDict, result |-> NoAttr,
     results |-> <<>>]

LockInit ==
    /\ locked = 0
    /\ acquired = {}
    /\ pc = [t \in Threads |-> "call"]
    /\ lock = [t \in Threads |-> 0]
    /\ got = [t \in Threads |-> FALSE]
    /\ logsentence = LogSentence("r1")

Init ==
    /\ individuals = EmptyDict
    /\ classes = EmptyDict
    /\ bms = EmptyDict
    /\ last = Done("init", "-", "-", <<>>)
    /\ tells = 0
    /\ LockInit

\* Representation.tell(string): logic_parser builds every atom of the string
\* first and raises on an illegal one, and then nothing is stored; else the
\* parsed batch is stored.
\* Representation.tell of a membership assertion
TellMemb(a) ==
    /\ tells < MaxTells
    /\ IF logic_parser_ok(ParseResults(a, <<>>, <<>>))
       THEN LET kb == tell(KB, ParseResults(a, <<>>, <<>>)) IN
              /\ individuals' = kb.individuals
              /\ classes' = kb.classes
              /\ bms' = kb.bms
              /\ last' = Done("tell_memb", a, "-", <<>>)
              /\ tells' = tells + 1
       ELSE /\ last' = Done("tell_memb", a, "raise", <<>>)
            /\ UNCHANGED <<individuals, classes, bms, tells>>
    /\ UNCHANGED lockvars

\* Representation.tell of a relation assertion
TellRel(f) ==
    /\ tells < MaxTells
    /\ IF logic_parser_ok(ParseResults(<<>>, <<f>>, <<>>))
       THEN LET kb == tell(KB, ParseResults(<<>>, <<f>>, <<>>)) IN
              /\ individuals' = kb.individuals
              /\ classes' = kb.classes
              /\ bms' = kb.bms
              /\ last' = Done("tell_rel", f, "-", <<>>)
              /\ tells' = tells + 1
       ELSE /\ last' = Done("tell_rel", f, "raise", <<>>)
            /\ UNCHANGED <<individuals, classes, bms, tells>>
    /\ UNCHANGED lockvars

\* Representation.tell of a rule: save_rule
TellRule(id) ==
    /\ tells < MaxTells
    /\ IF logic_parser_ok(ParseResults(<<>>, <<>>, <<id>>))
       THEN LET kb == tell(KB, ParseResults(<<>>, <<>>, <<id>>)) IN
              /\ individuals' = kb.individuals
              /\ classes' = kb.classes
              /\ bms' = kb.bms
              /\ last' = Done("save_rule", id, "-", <<>>)
              /\ tells' = tells + 1
       ELSE /\ last' = Done("save_rule", id, "raise", <<>>)
            /\ UNCHANGED <<individuals, classes, bms, tells>>
    /\ UNCHANGED lockvars

\* Representation.ask(q, single=True)
Ask(q, ord) ==
    /\ LET a == ask(KB, q, ord) IN
         /\ individuals' = a.kb.individuals
         /\ classes' = a.kb.classes
         /\ bms' = a.kb.bms
         /\ last' = Done("ask", q, a.res, a.results)
    /\ UNCHANGED tells
    /\ UNCHANGED lockvars

\* Representation.test_pred(p)
TestPred(p) ==
    /\ last' = Done("test_pred", p, test_pred(KB, p), <<>>)
    /\ UNCHANGED <<individuals, classes, bms, tells>>
    /\ UNCHANGED lockvars

Next ==
    \/ \E a \in TellMembAtoms : TellMemb(a)
    \/ \E f \in TellRelAtoms : TellRel(f)
    \/ \E id \in SentenceIds : TellRule(id)
    \/ \E q \in Queries, ord \in Orders : Ask(q, ord)
    \/ \E p \in Probes : TestPred(p)

Spec == Init /\ [][Next]_vars

(***************************************************************************)
(* The inputs at the edge of what tell and ask accept: values out of       *)
(* [0,1], a rule with a disjunction as its consequent, queries with a      *)
(* variable, and ask with single=False.                                    *)
(***************************************************************************)
EdgeValues == {-1, 0, 1, 2}

EdgeMembAtoms ==
    {<<GroundedTerm("A", "$a", v)>> : v \in EdgeValues}
        \cup {<<GroundedTerm("A", "cow", 1)>>,
              <<GroundedTerm("B", "$a", 1), GroundedTerm("A", "$b", 2)>>}

EdgeRelAtoms == {RelationFunc("R", <<"$a", "$b">>, v, "=") : v \in EdgeValues}

EdgeRules == {"r1", "r5", "r6"}

VarQueries ==
    {VarQuery(<<FreeTerm("A", "x", 1, "=")>>, <<>>),
     VarQuery(<<>>, <<RelationFunc("R", <<"x", "$b">>, 1, "=")>>)}

EdgeQueries ==
    {MembQuery(<<FreeTerm(c, s, 1, "=")>>) : c \in {"B", "C"}, s \in {"$a", "$b"}}
        \cup VarQueries

\* queried atoms with each comparator against the stored values
EdgeProbes ==
    {FreeTerm("A", "$a", 1, op) : op \in Ops}
        \cup {RelationFunc("R", <<"$a", "$b">>, 1, op) : op \in Ops}

\* Representation.ask(q, single=False): the results map is returned
AskAll(q, ord) ==
    /\ LET a == ask(KB, q, ord) IN
         /\ individuals' = a.kb.individuals
         /\ classes' = a.kb.classes
         /\ bms' = a.kb.bms
         /\ last' = Done("ask_all", q,
                         IF a.res = "raise" THEN "raise" ELSE "results",
                         a.results)
    /\ UNCHANGED tells
    /\ UNCHANGED lockvars

NextEdge ==
    \/ \E a \in EdgeMembAtoms : TellMemb(a)
    \/ \E f \in EdgeRelAtoms : TellRel(f)
    \/ \E id \in EdgeRules : TellRule(id)
    \/ \E q \in EdgeQueries, ord \in Orders : Ask(q, ord)
    \/ \E q \in VarQueries, ord \in Orders : AskAll(q, ord)
    \/ \E p \in EdgeProbes : TestPred(p)

SpecEdge == Init /\ [][NextEdge]_vars

(***************************************************************************)
(* Concurrent calls of one sentence object: call t runs                    *)
(* LogSentence.__call__(ag, Arg(t)) once, statement by statement, locking  *)
(* the one consequent atom of the sentence.  A Lock made by call t is the  *)
(* object t.  The store holds A[$a,u=1] and A[$b,u=0]; a tell may run      *)
(* beside the calls.                                                       *)
(***************************************************************************)
Arg(t) == IF t = 2 THEN "$b" ELSE "$a"

LockSentences == {"r1", "r5"}

LockTellAtoms == {<<GroundedTerm("B", "$a", 0)>>}

InitLock ==
    \E id \in LockSentences :
        LET kb == tell([individuals |-> EmptyDict, classes |-> EmptyDict,
                        bms |-> EmptyDict],
                       ParseResults(<<GroundedTerm("A", "$a", 1),
                                      GroundedTerm("A", "$b", 0)>>, <<>>, <<>>))
        IN /\ individuals = kb.individuals
           /\ classes = kb.classes
           /\ bms = kb.bms
           /\ last = Done("init", "-", "-", <<>>)
           /\ tells = MaxTells - 1
           /\ locked = 0
           /\ acquired = {}
           /\ pc = [t \in Threads |-> "call"]
           /\ lock = [t \in Threads |-> 0]
           /\ got = [t \in Threads |-> FALSE]
           /\ logsentence = LogSentence(id)

Goto(t, l) == pc' = [pc EXCEPT ![t] = l] /\ UNCHANGED storevars

\* LogSentence.__call__ up to thread_manager: 'self.ag = ag; self.assigned = {};
\* self.cln_res()' (call), then 'if const not in ag.individuals: return' and
\* 'self.assigned[var_name] = const' (assign)
call_begin(t) ==
    \/ /\ pc[t] = "call"
       /\ logsentence' = [logsentence EXCEPT !.has_ag = TRUE,
                                              !.assigned = EmptyDict,
                                              !.results = <<>>]
       /\ Goto(t, "assign")
       /\ UNCHANGED <<locked, acquired, lock, got>>
    \/ /\ pc[t] = "assign"
       /\ logsentence' =
             IF Arg(t) \in DOMAIN individuals
             THEN [logsentence EXCEPT !.assigned = Put(@, "x", Arg(t))]
             ELSE logsentence
       /\ Goto(t, IF Arg(t) \in DOMAIN individuals THEN "idle" ELSE "returned")
       /\ UNCHANGED <<locked, acquired, lock, got>>

\* thread_manager(to_lock): 'if p in self._locked' (idle), then either
\* 'self._locked[p]' (read, KeyError when the entry went away) or
\* 'lock = Lock(); self._locked[p] = lock' (new), then '.acquire(timeout=5)',
\* which takes a free lock or gives up after the wait; what it returns is
\* dropped and the call goes on
thread_manager_acquire(t) ==
    \/ /\ pc[t] = "idle"
       /\ Goto(t, IF locked # 0 THEN "read" ELSE "new")
       /\ UNCHANGED <<locked, acquired, lock, got, logsentence>>
    \/ /\ pc[t] = "read"
       /\ Goto(t, IF locked # 0 THEN "acquire" ELSE "raised")
       /\ lock' = IF locked # 0 THEN [lock EXCEPT ![t] = locked] ELSE lock
       /\ UNCHANGED <<locked, acquired, got, logsentence>>
    \/ /\ pc[t] = "new"
       /\ locked' = t
       /\ lock' = [lock EXCEPT ![t] = t]
       /\ Goto(t, "acquire")
       /\ UNCHANGED <<acquired, got, logsentence>>
    \/ /\ pc[t] = "acquire"
       /\ lock[t] \notin acquired
       /\ acquired' = acquired \cup {lock[t]}
       /\ got' = [got EXCEPT ![t] = TRUE]
       /\ Goto(t, "solve_proof")
       /\ UNCHANGED <<locked, lock, logsentence>>
    \/ /\ pc[t] = "acquire"
       /\ lock[t] \in acquired
       /\ got' = [got EXCEPT ![t] = FALSE]
       /\ Goto(t, "solve_proof")
       /\ UNCHANGED <<locked, acquired, lock, logsentence>>

\* LogicIndCond.solve_proof(proof) on the shared sentence object ls, whose
\* consequent is one atom or a disjunction: the left side resolves with
\* proof.ag (AttributeError when the attribute is gone) and proof.assigned
\* and its value is appended to _results; on _results[0] the right side is
\* substituted with proof.assigned, the atom stored and then appended to
\* proof.result (AttributeError when proof.result is False), or proof.result
\* is set to False when the sentence has no result yet
solve_proof_shared(kb, ls, results, st) ==
    IF ~ls.has_ag THEN [kb |-> kb, ls |-> ls, raised |-> TRUE]
    ELSE IF results[1] = T
    THEN [kb |-> st.kb,
          ls |-> [ls EXCEPT !.results = results,
                            !.result = IF st.raised \/ @.kind = "false" THEN @
                                       ELSE [kind |-> "list",
                                             atoms |-> @.atoms \o st.result]],
          raised |-> st.raised \/ ls.result.kind = "false"]
    ELSE IF results[1] = F
    THEN [kb |-> kb,
          ls |-> [ls EXCEPT !.results = results,
                            !.result = IF @.kind = "none"
                                       THEN [kind |-> "false", atoms |-> <<>>]
                                       ELSE @],
          raised |-> FALSE]
    ELSE [kb |-> kb, ls |-> [ls EXCEPT !.results = results], raised |-> FALSE]

solve_proof_run(kb, ls) ==
    solve_proof_shared(
        kb, ls,
        Append(ls.results, resolve(Sentence(ls.id).start.next[1], kb, ls.assigned)),
        substitute(Sentence(ls.id).start.next[2],
                   [kb |-> kb, result |-> <<>>, proof |-> ls.id, raised |-> FALSE],
                   ls.assigned))

\* self.start.solve_proof(self) between the two calls of thread_manager: it
\* returns, or raises and the call ends without unlocking
solve_proof(t) ==
    \/ /\ pc[t] = "solve_proof"
       /\ ~solve_proof_run(KB, logsentence).raised
       /\ individuals' = solve_proof_run(KB, logsentence).kb.individuals
       /\ classes' = solve_proof_run(KB, logsentence).kb.classes
       /\ bms' = solve_proof_run(KB, logsentence).kb.bms
       /\ logsentence' = solve_proof_run(KB, logsentence).ls
       /\ pc' = [pc EXCEPT ![t] = "unlock"]
       /\ UNCHANGED <<last, tells, locked, acquired, lock, got>>
    \/ /\ pc[t] = "solve_proof"
       /\ solve_proof_run(KB, logsentence).raised
       /\ individuals' = solve_proof_run(KB, logsentence).kb.individuals
       /\ classes' = solve_proof_run(KB, logsentence).kb.classes
       /\ bms' = solve_proof_run(KB, logsentence).kb.bms
       /\ logsentence' = solve_proof_run(KB, logsentence).ls
       /\ pc' = [pc EXCEPT ![t] = "raised"]
       /\ UNCHANGED <<last, tells, locked, acquired, lock, got>>

\* thread_manager(to_lock, unlock=True): 'lock = self._locked[p]' (KeyError
\* when absent), 'lock.release()' (RuntimeError on an unlocked Lock),
\* 'del self._locked[p]' (KeyError when absent)
thread_manager_unlock(t) ==
    \/ /\ pc[t] = "unlock"
       /\ Goto(t, IF locked # 0 THEN "release" ELSE "raised")
       /\ lock' = IF locked # 0 THEN [lock EXCEPT ![t] = locked] ELSE lock
       /\ UNCHANGED <<locked, acquired, got, logsentence>>
    \/ /\ pc[t] = "release"
       /\ Goto(t, IF lock[t] \in acquired THEN "del" ELSE "raised")
       /\ acquired' = acquired \ {lock[t]}
       /\ UNCHANGED <<locked, lock, got, logsentence>>
    \/ /\ pc[t] = "del"
       /\ Goto(t, IF locked # 0 THEN "done" ELSE "raised")
       /\ locked' = 0
       /\ UNCHANGED <<acquired, lock, got, logsentence>>

\* LogSentence.__call__ after the unlock: 'del self.ag' (AttributeError when
\* the attribute is gone), then 'if hasattr(self, "result"): result =
\* self.result; del self.result; return result'
call_end(t) ==
    \/ /\ pc[t] = "done"
       /\ Goto(t, IF logsentence.has_ag THEN "return" ELSE "raised")
       /\ logsentence' = [logsentence EXCEPT !.has_ag = FALSE]
       /\ UNCHANGED <<locked, acquired, lock, got>>
    \/ /\ pc[t] = "return"
       /\ Goto(t, "returned")
       /\ logsentence' = [logsentence EXCEPT !.result = NoAttr]
       /\ UNCHANGED <<locked, acquired, lock, got>>

NextLock ==
    \/ \E t \in Threads : call_begin(t)
    \/ \E t \in Threads : thread_manager_acquire(t)
    \/ \E t \in Threads : solve_proof(t)
    \/ \E t \in Threads : thread_manager_unlock(t)
    \/ \E t \in Threads : call_end(t)
    \/ \E a \in LockTellAtoms : TellMemb(a)

SpecLock == InitLock /\ [][NextLock]_vars

(***************************************************************************)
(* The connectives as functions of a store: the stores hold $a with A and  *)
(* B each absent or told with a value, and a step resolves one particle    *)
(* with x bound to $a.                                                     *)
(***************************************************************************)
Told(c) == {<<>>} \cup {<<GroundedTerm(c, "$a", v)>> : v \in Values}

\* the store after the tells ma and mb, each of one atom or of none
StoreOf(ma, mb) ==
    tell(tell([individuals |-> EmptyDict, classes |-> EmptyDict, bms |-> EmptyDict],
              ParseResults(ma, <<>>, <<>>)),
         ParseResults(mb, <<>>, <<>>))

ParticleAtoms ==
    {LogicAtom(FreeTerm("A", "x", 1, "=")), LogicAtom(FreeTerm("B", "x", 1, "=")),
     LogicAtom(FreeTerm("B", "x", 0, "="))}

Particles ==
    {[cond |-> c, next |-> <<l, r>>] :
        c \in {"&&", "||", "=>"}, l \in ParticleAtoms, r \in ParticleAtoms}

InitParticle ==
    \E ma \in Told("A"), mb \in Told("B") :
        /\ individuals = StoreOf(ma, mb).individuals
        /\ classes = StoreOf(ma, mb).classes
        /\ bms = StoreOf(ma, mb).bms
        /\ last = Done("init", "-", "-", <<>>)
        /\ tells = Len(ma) + Len(mb)
        /\ LockInit

\* particle.resolve(proof) with the sentence's variable x bound to $a
Resolve(t) ==
    /\ last' = Done("resolve", t, resolve(t, KB, [v \in {"x"} |-> "$a"]), <<>>)
    /\ UNCHANGED <<individuals, classes, bms, tells>>
    /\ UNCHANGED lockvars

\* the sentences evaluated on these stores
ParticleSentences == {"r1", "r2", "r3"}

\* sentence.start.solve_proof(sentence) with the variable x bound to $a
SolveProof(id) ==
    /\ LET r == LogicIndCond_solve_proof(Sentence(id).start, KB,
                                         [v \in {"x"} |-> "$a"], id)
       IN /\ individuals' = r.kb.individuals
          /\ classes' = r.kb.classes
          /\ bms' = r.kb.bms
          /\ last' = Done("solve_proof", id, r.kind, r.atoms)
    /\ UNCHANGED tells
    /\ UNCHANGED lockvars

NextParticle ==
    \/ \E t \in Particles : Resolve(t)
    \/ \E id \in ParticleSentences : SolveProof(id)

SpecParticle == InitParticle /\ [][NextParticle]_vars

(***************************************************************************)
(* The belief maintenance system of src/src/core (bms.py) with the store   *)
(* of src/src/core/kblogic.py it reads.  In this part individuals maps a   *)
(* name to [categ, relations] with categ a list of <<category, value>>,    *)
(* classes maps a name to [parents, relations, cog], and bms is            *)
(* BmsWrapper.container, a map from a key string to [form, prev] where     *)
(* prev = <<>> stands for None.  A membership atom is the tuple            *)
(* (cat, (sbj, val)) and a relation atom the tuple (rel, ((obj, val),      *)
(* sbj), tag); val is a float, or (isstr) the text 'op number' as a rule   *)
(* writes it.  The floats are 0.0 and 1.0.                                 *)
(***************************************************************************)
\* str(float(v))
StrFloat(v) == ToString(v) \o ".0"

MembPred(cat, sbj, isstr, op, val) ==
    [kind |-> "memb", cat |-> cat, sbj |-> sbj, isstr |-> isstr, op |-> op,
     val |-> val]

RelPred(rel, obj, sbj, isstr, op, val) ==
    [kind |-> "rel", cat |-> rel, obj |-> obj, sbj |-> sbj, isstr |-> isstr,
     op |-> op, val |-> val]

\* Individual.get_cat(): {k: v for k, v in self.categ}
Individual_get_cat(ind) ==
    [c \in {ind.categ[i][1] : i \in DOMAIN ind.categ} |->
        ind.categ[CHOOSE i \in DOMAIN ind.categ :
                     /\ ind.categ[i][1] = c
                     /\ \A j \in DOMAIN ind.categ : ind.categ[j][1] = c => j <= i][2]]

\* Representation.up_memb(pred) with Individual.add_ctg and
\* Category.add_parent; the BMS call in it is commented out
core_up_memb(kb, pred) ==
    LET old == IF pred.sbj \in DOMAIN kb.individuals
               THEN kb.individuals[pred.sbj]
               ELSE [categ |-> <<>>, relations |-> {}]
        idx == {i \in DOMAIN old.categ : old.categ[i][1] = pred.cat}
        ind == IF idx = {}
               THEN [old EXCEPT !.categ = Append(@, <<pred.cat, pred.val>>)]
               ELSE [old EXCEPT !.categ[CHOOSE i \in idx : \A j \in idx : i <= j] =
                                    <<pred.cat, pred.val>>]
        cls == IF pred.sbj \in DOMAIN kb.classes THEN kb.classes[pred.sbj]
               ELSE [parents |-> <<>>, relations |-> {}, cog |-> <<>>]
        kb1 == IF IsInd(pred.sbj)
               THEN [kb EXCEPT !.individuals = Put(@, pred.sbj, ind)]
               ELSE [kb EXCEPT !.classes =
                        Put(@, pred.sbj,
                            [cls EXCEPT !.parents = Append(@, <<pred.cat, pred.val>>)])]
    IN IF pred.cat \in DOMAIN kb1.classes THEN kb1
       ELSE [kb1 EXCEPT !.classes =
                Put(@, pred.cat, [parents |-> <<>>, relations |-> {}, cog |-> <<>>])]

\* Representation.up_rel(func) for a relation between two individuals, with
\* Individual.add_rel: each argument gets the relation's name as a key of its
\* relations
core_up_rel(kb, rel, args) ==
    [kb EXCEPT
        !.individuals =
            [n \in DOMAIN @ \cup Range(args) |->
                IF n \in Range(args)
                THEN [categ |-> IF n \in DOMAIN @ THEN @[n].categ ELSE <<>>,
                      relations |-> (IF n \in DOMAIN @ THEN @[n].relations ELSE {})
                                        \cup {rel}]
                ELSE @[n]],
        !.classes = IF rel \in DOMAIN @ THEN @
                    ELSE Put(@, rel, [parents |-> <<>>, relations |-> {}, cog |-> <<>>])]

\* BmsWrapper.WrappDecl.remake(sets): the key is built with str(value) and the
\* record of a direct assertion is stored under it
WrappDecl_remake(b, sets) ==
    [b EXCEPT !.container =
        Put(@,
            IF sets.kind = "rel"
            THEN "<" \o sets.cat \o "[" \o sets.obj \o ",u="
                     \o (IF sets.isstr THEN sets.op \o ToString(sets.val)
                         ELSE StrFloat(sets.val))
                     \o ";" \o sets.sbj \o "]>"
            ELSE sets.cat \o "[" \o sets.sbj \o ",u="
                     \o (IF sets.isstr THEN sets.op \o ToString(sets.val)
                         ELSE StrFloat(sets.val))
                     \o "]",
            [form |-> "SELF", prev |-> <<>>])]

\* the key of an atom with its comparator and str(float(value))
BeliefKey(s) ==
    IF s.kind = "rel"
    THEN "<" \o s.cat \o "[" \o s.obj \o ",u" \o s.op \o StrFloat(s.val)
             \o ";" \o s.sbj \o "]>"
    ELSE s.cat \o "[" \o s.sbj \o ",u" \o s.op \o StrFloat(s.val) \o "]"

\* BeliefRecord.remake(s): s[1][1][0] and s[1][1][1:] need the value as text
\* (TypeError on a float); the key is appended to beliefs
BeliefRecord_remake(b, s) ==
    IF ~s.isstr THEN [b EXCEPT !.raised = TRUE]
    ELSE [b EXCEPT !.beliefs = Append(@, BeliefKey(s))]

\* the wrapper b: its container and its working record wrk_bel, a WrappDecl
\* (decl) or a BeliefRecord with form, beliefs and prod; flagged when
\* INCONSISTENCY was printed, raised when the call raised
Wrapper(container) ==
    [container |-> container, decl |-> TRUE, form |-> "SELF", beliefs |-> <<>>,
     prod |-> <<>>, flagged |-> FALSE, raised |-> FALSE]

\* BmsWrapper.register(form): wrk_bel = BeliefRecord(form, self)
BmsWrapper_register(b, form) ==
    [b EXCEPT !.decl = FALSE, !.form = form, !.beliefs = <<>>, !.prod = <<>>]

\* a prev_blf that takes any belief, recorded or not
BeliefRecord_prev_blf_any(b, belief) == [b EXCEPT !.prod = Append(@, belief)]

\* BeliefRecord.prev_blf(belief)
BeliefRecord_prev_blf(b, belief) ==
    IF belief \in DOMAIN b.container THEN [b EXCEPT !.prod = Append(@, belief)]
    ELSE b

\* BeliefRecord.save(): every belief gets a record with the form and with
\* tuple(prod), or None when prod is empty
RECURSIVE BeliefRecord_save(_, _)
BeliefRecord_save(b, i) ==
    IF i > Len(b.beliefs) THEN b
    ELSE BeliefRecord_save(
            [b EXCEPT !.container =
                Put(@, b.beliefs[i], [form |-> b.form, prev |-> b.prod])],
            i + 1)

\* self.wrk_bel.remake(pred)
wrk_bel_remake(b, pred) ==
    IF b.decl THEN WrappDecl_remake(b, pred) ELSE BeliefRecord_remake(b, pred)

\* BmsWrapper.check(pred).  Membership: 'return False' when
\* individuals[sbj].get_cat() fails; INCONSISTENCY is printed when the slot
\* holds another value and neither ('>' and stored > val) nor ('<' and stored
\* < val); then remake.  Relation: when the subject holds the relation,
\* get_rel(rel0) is called with an argument it does not take (TypeError);
\* otherwise remake.
BmsWrapper_check(kb, b, pred) ==
    IF pred.kind = "memb"
    THEN IF pred.sbj \notin DOMAIN kb.individuals THEN b
         ELSE wrk_bel_remake(
                [b EXCEPT !.flagged =
                    LET categs == Individual_get_cat(kb.individuals[pred.sbj])
                    IN /\ pred.cat \in DOMAIN categs
                       /\ pred.val # categs[pred.cat]
                       /\ ~(pred.op = ">" /\ categs[pred.cat] > pred.val)
                       /\ ~(pred.op = "<" /\ categs[pred.cat] < pred.val)],
                pred)
    ELSE IF /\ pred.sbj \in DOMAIN kb.individuals
            /\ IsInd(pred.sbj)
            /\ pred.cat \in kb.individuals[pred.sbj].relations
         THEN [b EXCEPT !.raised = TRUE]
         ELSE wrk_bel_remake(b, pred)

\* BmsWrapper.add(pred, True): wrk_bel = WrappDecl(self); check(pred)
core_BmsWrapper_add(kb, container, pred) ==
    BmsWrapper_check(kb, Wrapper(container), pred)

\* SubstRepr.FakeBms: register starts two lists; prev_blf and check append
\* their argument to them; register(stop=True) does nothing
FakeBms(form) ==
    [fake |-> TRUE, form |-> form, beliefs |-> <<>>, prod |-> <<>>,
     flagged |-> FALSE, raised |-> FALSE]

\* ag.bmsWrapper.prev_blf(s) and ag.bmsWrapper.check(pred) on either wrapper
ag_prev_blf(b, s) ==
    IF "fake" \in DOMAIN b THEN [b EXCEPT !.prod = Append(@, s)]
    ELSE BeliefRecord_prev_blf(b, s)

ag_check(kb, b, pred) ==
    IF "fake" \in DOMAIN b THEN [b EXCEPT !.beliefs = Append(@, BeliefKey(pred))]
    ELSE BmsWrapper_check(kb, b, pred)

\* Particle.ispred with key 101 for a membership atom of an individual: True,
\* False, or None when the individual is not in the category
core_ispred(kb, pred, sbj) ==
    LET categs == Individual_get_cat(kb.individuals[sbj])
    IN IF pred.parent \notin DOMAIN categs THEN N
       ELSE IF \/ (pred.op = "=" /\ pred.value = categs[pred.parent])
               \/ (pred.op = ">" /\ pred.value > categs[pred.parent])
               \/ (pred.op = "<" /\ pred.value = categs[pred.parent])
       THEN T ELSE F

\* LogSentence.__call__(ag, (const,)) of core/kblogic.py for a sentence
\* 'lhs |> rhs' of two membership atoms over one variable: register, icond
\* tests the left atom (ispred 101; prev_blf of its key when True) and on
\* True declares the right one (bmsWrapper.check, then up_memb), then
\* register(stop=True), which saves on the BmsWrapper
core_declare(kb, b, p) ==
    [kb |-> IF ag_check(kb, b, p).raised THEN kb
            ELSE core_up_memb(kb, [p EXCEPT !.isstr = FALSE]),
     b |-> ag_check(kb, b, p)]

core_icond(kb, b, lhs, rhs, const) ==
    IF core_ispred(kb, lhs, const) = T
    THEN core_declare(
            kb,
            ag_prev_blf(b, BeliefKey(MembPred(lhs.parent, const, TRUE, lhs.op,
                                              lhs.value))),
            MembPred(rhs.parent, const, TRUE, rhs.op, rhs.value))
    ELSE [kb |-> kb, b |-> b]

core_call_end(r) ==
    IF "fake" \in DOMAIN r.b \/ r.b.raised THEN r
    ELSE [r EXCEPT !.b = BeliefRecord_save(r.b, 1)]

core_LogSentence_call(kb, b, id, const) ==
    IF const \notin DOMAIN kb.individuals THEN [kb |-> kb, b |-> b]
    ELSE core_call_end(core_icond(kb, b, Sentence(id).start.next[1].pred,
                                  Sentence(id).start.next[2].pred, const))

\* SubstRepr(kb, obj_dic).make with obj_dic from inds_by_cat / cls_by_cat,
\* which list every individual and every class with the names of ctgs it
\* holds: a copy of each individual and class with only the categories,
\* parents and relations named in ctgs
SubstRepr(kb, ctgs) ==
    [kb EXCEPT
        !.individuals =
            [n \in DOMAIN @ |->
                [categ |-> SelectSeq(@[n].categ, LAMBDA c : c[1] \in ctgs),
                 relations |-> @[n].relations \cap ctgs]],
        !.classes =
            [n \in DOMAIN @ |->
                [@[n] EXCEPT !.parents = SelectSeq(@, LAMBDA c : c[1] \in ctgs),
                             !.relations = @ \cap ctgs]]]

\* what make leaves in kb itself: 'o_cls.parents = categ' stores the filtered
\* list of parents in the class of the original store
make_o_cls(kb, ctgs) ==
    [kb EXCEPT
        !.classes =
            [n \in DOMAIN @ |->
                [@[n] EXCEPT !.parents = SelectSeq(@, LAMBDA c : c[1] \in ctgs)]]]

\* the sentences indexed in the store, and Inference.chk_cats: the names that
\* get_rules visits from a name of one of them; the sentences of CoreRules
\* share the name B, so these are the names of all the indexed sentences
StoredRules(kb) ==
    {id \in {"r1", "r3"} :
        \E n \in DOMAIN kb.classes : id \in Range(kb.classes[n].cog)}

chk_cats(kb) ==
    UNION {Range(NamesOf(get_all_preds(Sentence(id)))) : id \in StoredRules(kb)}

\* Inference.rcsv_test: node.rule(self.subkb, args) on the working copy with
\* its FakeBms; nothing of the copy or of the FakeBms goes back to the agent
\* when the Inference ends
rcsv_test(kb, id, const) ==
    core_LogSentence_call(SubstRepr(kb, chk_cats(kb)), FakeBms(id), id, const)

\* Representation.push(subs): individuals.update / classes.update with the
\* objects of the working copy
push(kb, subs) ==
    [individuals |-> [n \in DOMAIN kb.individuals \cup DOMAIN subs.individuals |->
                        IF n \in DOMAIN subs.individuals THEN subs.individuals[n]
                        ELSE kb.individuals[n]],
     classes |-> [n \in DOMAIN kb.classes \cup DOMAIN subs.classes |->
                        IF n \in DOMAIN subs.classes THEN subs.classes[n]
                        ELSE kb.classes[n]]]

\* 'for ind in subrpr.individuals.keys(): proof(subrpr, ind)' of save_rule:
\* the call takes the name ind itself as its argument list, so a sentence of
\* one variable gets len(ind) >= 2 arguments and returns at once
RECURSIVE core_save_rule_run(_, _, _, _)
core_save_rule_run(subs, b, id, names) ==
    IF names = {} THEN [kb |-> subs, b |-> b]
    ELSE LET ind == CHOOSE n \in names : TRUE
             r == IF Len(Sentence(id).var_order) = Len(CharsOf(ind))
                  THEN core_LogSentence_call(subs, b, id, CharsOf(ind)[1])
                  ELSE [kb |-> subs, b |-> b]
         IN core_save_rule_run(r.kb, r.b, id, names \ {ind})

\* the loop 'for p in preds' of save_rule: the sentence is added to the cog
\* of classes[name], or classes[name] becomes a new Category holding it
RECURSIVE core_save_rule_index(_, _, _, _)
core_save_rule_index(cls, id, names, i) ==
    IF i > Len(names) THEN cls
    ELSE core_save_rule_index(
            IF names[i] \in DOMAIN cls /\ id \notin Range(cls[names[i]].cog)
            THEN [cls EXCEPT ![names[i]].cog = Append(@, id)]
            ELSE Put(cls, names[i],
                     [parents |-> <<>>, relations |-> {}, cog |-> <<id>>]),
            id, names, i + 1)

\* Representation.save_rule(proof) of core/kblogic.py: the sentence is
\* indexed, called on a SubstRepr of the objects holding one of its names,
\* and the copy is pushed
core_save_rule(kb0, id) ==
    LET n == Range(NamesOf(get_all_preds(Sentence(id))))
        kb == [kb0 EXCEPT !.classes =
                 core_save_rule_index(@, id, NamesOf(get_all_preds(Sentence(id))), 1)]
        subs == SubstRepr(kb, n)
        r == core_save_rule_run(subs, FakeBms(id), id, DOMAIN subs.individuals)
    IN [kb |-> push(make_o_cls(kb, n), r.kb), b |-> r.b]

CoreMembPreds ==
    {MembPred(c, "$a", FALSE, "=", v) : c \in {"A", "B"}, v \in {0, 1}}
        \cup {MembPred("A", "cow", FALSE, "=", 1)}

CoreAddPreds ==
    CoreMembPreds
        \cup {MembPred("A", "$a", TRUE, op, v) : op \in {"=", ">", "<"}, v \in {0, 1}}
        \cup {RelPred("R", "$b", "$a", FALSE, "=", 1)}

CoreRules == {"r1", "r3"}

\* Representation.declare of a membership: up_memb
CoreTell(p) ==
    /\ tells < MaxTells
    /\ individuals' = core_up_memb(KB, p).individuals
    /\ classes' = core_up_memb(KB, p).classes
    /\ last' = Done("declare", p, "-", <<>>)
    /\ tells' = tells + 1
    /\ UNCHANGED bms
    /\ UNCHANGED lockvars

\* Representation.declare of the relation <R[$b,u=1;$a]>: up_rel
CoreTellRel(rel, args) ==
    /\ tells < MaxTells
    /\ individuals' = core_up_rel(KB, rel, args).individuals
    /\ classes' = core_up_rel(KB, rel, args).classes
    /\ last' = Done("declare", <<rel, args>>, "-", <<>>)
    /\ tells' = tells + 1
    /\ UNCHANGED bms
    /\ UNCHANGED lockvars

\* BmsWrapper.add(pred, True)
BmsAdd(p) ==
    /\ tells < MaxTells
    /\ tells' = tells + 1
    /\ bms' = core_BmsWrapper_add(KB, bms, p).container
    /\ last' = Done("add", p,
                    IF core_BmsWrapper_add(KB, bms, p).raised THEN "raise"
                    ELSE IF core_BmsWrapper_add(KB, bms, p).flagged
                    THEN "INCONSISTENCY" ELSE "-",
                    <<>>)
    /\ UNCHANGED <<individuals, classes>>
    /\ UNCHANGED lockvars

\* a sentence called on the agent itself: its BmsWrapper records the call
CoreCall(id, const) ==
    /\ tells < MaxTells
    /\ LET r == core_LogSentence_call(KB, BmsWrapper_register(Wrapper(bms), id),
                                      id, const)
       IN /\ individuals' = r.kb.individuals
          /\ classes' = r.kb.classes
          /\ bms' = r.b.container
          /\ last' = Done("call", id, IF r.b.raised THEN "raise" ELSE "-",
                          r.b.beliefs)
    /\ tells' = tells + 1
    /\ UNCHANGED lockvars

\* Representation.ask: an Inference that builds its SubstRepr and runs the
\* indexed rule on it
CoreAsk(id, const) ==
    /\ id \in StoredRules(KB)
    /\ last' = Done("ask", id, "-", rcsv_test(KB, id, const).b.beliefs)
    /\ classes' = make_o_cls(KB, chk_cats(KB)).classes
    /\ UNCHANGED <<individuals, bms, tells>>
    /\ UNCHANGED lockvars

\* Representation.save_rule
CoreSaveRule(id) ==
    /\ individuals' = core_save_rule(KB, id).kb.individuals
    /\ classes' = core_save_rule(KB, id).kb.classes
    /\ last' = Done("save_rule", id, "-", core_save_rule(KB, id).b.beliefs)
    /\ UNCHANGED <<bms, tells>>
    /\ UNCHANGED lockvars

NextBms ==
    \/ \E p \in CoreMembPreds : CoreTell(p)
    \/ CoreTellRel("R", <<"$a", "$b">>)
    \/ \E p \in CoreAddPreds : BmsAdd(p)
    \/ \E id \in CoreRules, c \in {"$a", "$b"} : CoreCall(id, c)
    \/ \E id \in CoreRules, c \in {"$a", "$b"} : CoreAsk(id, c)
    \/ \E id \in CoreRules : CoreSaveRule(id)

SpecBms == Init /\ [][NextBms]_vars

(***************************************************************************)
(* Representation.ask of one ground membership atom, pass by pass: the     *)
(* Inference object is built (get_query, get_rules, the object             *)
(* dictionary), then each step runs one iteration of the loop of           *)
(* infer_facts.query, a call of unify from the queried name, until unify   *)
(* returns True or a pass updates nothing.  While the query runs 'last'    *)
(* holds the Inference object: last.results is [u, aq, nodes, ord].        *)
(***************************************************************************)
InferRules == {"r1", "r2", "r3", "r6", "r7", "r8"}

InferMembAtoms ==
    {<<GroundedTerm("A", "$a", v)>> : v \in Values}
        \cup {<<GroundedTerm("A", "$a", v), GroundedTerm("B", "$a", 1)>> : v \in Values}
        \cup {<<GroundedTerm("A", "$a", 1), GroundedTerm("B", "$b", 1)>>}

InferQueries == {FreeTerm(c, "$a", 1, "=") : c \in {"B", "C"}}

Running == last.op = "infer" /\ last.res = "running"

\* tell between two queries
InferTellMemb(a) == ~Running /\ TellMemb(a)

InferTellRule(id) == ~Running /\ TellRule(id)

\* Inference.__init__ up to the call of query(pred, q): an atom the store
\* answers true leaves no term and ask returns; otherwise results[var] and
\* the memoization table are set up for the loop
InferBegun(p, g, r, ord) ==
    Done("infer", p,
         IF g.terms = <<>> THEN "returned" ELSE "running",
         [u |-> [Inference(KB, g, r) EXCEPT
                    !.results = IF g.terms = <<>> THEN @
                                ELSE OSetDefault(@, p.term, <<>>)],
          aq |-> [obj |-> p.term, name |-> NameOf(p), pred |-> p],
          nodes |-> r.nodes, ord |-> ord])

InferStart(p, ord) ==
    /\ ~Running
    /\ last' = InferBegun(p, get_query(KB, MembQuery(<<p>>)),
                          get_rules(KB, [ctgs |-> get_query(KB, MembQuery(<<p>>)).ctgs,
                                         done |-> <<>>, rules |-> {},
                                         nodes |-> <<>>]),
                          ord)
    /\ UNCHANGED <<individuals, classes, bms, tells>>
    /\ UNCHANGED lockvars

\* the state of the loop 'while not result and k is True' after unify gave x:
\* it runs again when unify returned nothing and some call updated the store;
\* when it ends, infer_facts defaults the result of the name to None
QueryPassed(x) ==
    [last EXCEPT
        !.res = IF x.u.raised THEN "raise"
                ELSE IF ~x.ret /\ x.u.updated THEN "running"
                ELSE "returned",
        !.results.u =
            IF x.u.raised \/ (~x.ret /\ x.u.updated) THEN x.u
            ELSE [x.u EXCEPT !.results =
                    ResSetDefault(@, last.results.aq.obj, last.results.aq.name, N)]]

QueryStored(x) ==
    /\ individuals' = x.u.kb.individuals
    /\ classes' = x.u.kb.classes
    /\ bms' = x.u.kb.bms
    /\ last' = QueryPassed(x)

\* one iteration of the loop of infer_facts.query
QueryPass ==
    /\ Running
    /\ QueryStored(unify([last.results.u EXCEPT !.updated = FALSE, !.seq = <<>>],
                         last.results.aq.name, <<>>, <<>>, last.results.aq,
                         last.results.nodes, last.results.ord))
    /\ UNCHANGED tells
    /\ UNCHANGED lockvars

NextInfer ==
    \/ \E a \in InferMembAtoms : InferTellMemb(a)
    \/ \E id \in InferRules : InferTellRule(id)
    \/ \E p \in InferQueries, ord \in Orders : InferStart(p, ord)
    \/ QueryPass

SpecInfer == Init /\ [][NextInfer]_vars

(***************************************************************************)
(* Cognitions: tell of a complex sentence that is not a rule hands it to   *)
(* Representation.add_cog, which indexes it under each of its atoms and    *)
(* then asks for the sentence's atoms with a keyword get_preds does not    *)
(* take: the call raises after the store was changed.                      *)
(***************************************************************************)
CogIds == {"c1", "c2", "c3"}

\* the cognition sentences told:
\*   c1  :vars:x: (D[x,u=1] && A[x,u=1])
\*   c2  (D[$a,u=1] && A[cow,u=1])
\*   c3  :vars:x: (R[x,u=1;$b] && B[x,u=1])
Cognition(id) ==
    CASE id = "c1" ->
           [id |-> id, has_var_order |-> TRUE, var_order |-> <<"x">>, created |-> 9,
            start |-> LogicConjunction(LogicAtom(FreeTerm("D", "x", 1, "=")),
                                       LogicAtom(FreeTerm("A", "x", 1, "=")))]
      [] id = "c2" ->
           [id |-> id, has_var_order |-> FALSE, var_order |-> <<>>, created |-> 10,
            start |-> LogicConjunction(LogicAtom(FreeTerm("D", "$a", 1, "=")),
                                       LogicAtom(FreeTerm("A", "cow", 1, "=")))]
      [] id = "c3" ->
           [id |-> id, has_var_order |-> TRUE, var_order |-> <<"x">>, created |-> 11,
            start |-> LogicConjunction(
                        LogicAtom(RelationFunc("R", <<"x", "$b">>, 1, "=")),
                        LogicAtom(FreeTerm("B", "x", 1, "=")))]

\* Individual.add_cog(p, sent): the sentence joins cog[p] when p is a key that
\* does not hold it yet; else cog[p] is replaced by a list of this sentence
Individual_add_cog(ind, p, sent) ==
    [ind EXCEPT !.cog = IF OHas(@, p) /\ sent.id \notin Range(OGet(@, p))
                        THEN OSet(@, p, Append(OGet(@, p), sent.id))
                        ELSE OSet(@, p, <<sent.id>>)]

\* Category.add_cog(sent)
Category_add_cog(cls, sent) ==
    IF sent.id \in Range(cls.cog) THEN cls
    ELSE [cls EXCEPT !.cog = Append(@, sent.id)]

\* chk_args(p) of add_cog, with pred and sbj as the enclosing loop left them:
\* for a variable subject the sentence goes to classes[p], and a class made
\* for it is built from the subject; for a ground subject it goes to the
\* individual or the class the subject names
add_cog_chk_args(kb, sent, pred, sbj, p) ==
    IF sent.has_var_order /\ sbj \in Range(sent.var_order)
    THEN IF p \in DOMAIN kb.classes
         THEN [kb EXCEPT !.classes[p] = Category_add_cog(@, sent)]
         ELSE [kb EXCEPT !.classes =
                 Put(@, p, Category_add_cog(IF ~IsFunction(pred)
                                            THEN Category(sbj)
                                            ELSE Relation(sbj), sent))]
    ELSE IF IsInd(sbj) /\ sbj \in DOMAIN kb.individuals
    THEN [kb EXCEPT !.individuals[sbj] = Individual_add_cog(@, p, sent)]
    ELSE IF IsInd(sbj)
    THEN [kb EXCEPT !.individuals =
            Put(@, sbj, Individual_add_cog(Individual(sbj), p, sent))]
    ELSE IF sbj \in DOMAIN kb.classes
    THEN [kb EXCEPT !.classes[sbj] = Category_add_cog(@, sent)]
    ELSE [kb EXCEPT !.classes =
            Put(@, sbj, Category_add_cog(IF ~IsFunction(pred)
                                         THEN Category(sbj)
                                         ELSE Relation(sbj), sent))]

\* the loop 'for arg in pred.args' of add_cog
RECURSIVE add_cog_args(_, _, _, _)
add_cog_args(kb, sent, pred, j) ==
    IF j > Len(get_args(pred)) THEN kb
    ELSE add_cog_args(add_cog_chk_args(kb, sent, pred, get_args(pred)[j],
                                       pred.func),
                      sent, pred, j + 1)

\* the loop 'for pred in preds' of add_cog
RECURSIVE add_cog_preds(_, _, _, _)
add_cog_preds(kb, sent, preds, i) ==
    IF i > Len(preds) THEN kb
    ELSE add_cog_preds(
            IF IsFunction(preds[i]) THEN add_cog_args(kb, sent, preds[i], 1)
            ELSE add_cog_chk_args(kb, sent, preds[i], preds[i].term,
                                  preds[i].parent),
            sent, preds, i + 1)

\* Representation.add_cog up to 'questions = sent.get_preds('r',
\* return_obj=True)', where it raises TypeError
add_cog(kb, sent) == add_cog_preds(kb, sent, get_all_preds(sent), 1)

\* Representation.tell of a cognition: the sentence is indexed and the call
\* raises
TellCog(id) ==
    /\ tells < MaxTells
    /\ LET kb == add_cog(KB, Cognition(id)) IN
         /\ individuals' = kb.individuals
         /\ classes' = kb.classes
         /\ bms' = kb.bms
         /\ last' = Done("add_cog", id, "raise", <<>>)
         /\ tells' = tells + 1
    /\ UNCHANGED lockvars

NextCog ==
    \/ \E a \in TellMembAtoms : TellMemb(a)
    \/ \E id \in SentenceIds : TellRule(id)
    \/ \E id \in CogIds : TellCog(id)

SpecCog == Init /\ [][NextCog]_vars

(***************************************************************************)
(* Vocabulary of the properties.                                           *)
(***************************************************************************)
\* the atoms of a parsed query
QueryAtoms(q) == Range(q.assert_memb) \cup Range(q.assert_rel)

\* sentence id is indexed under some name of the store
RuleIndexed(kb, id) ==
    \E c \in DOMAIN kb.classes : id \in Range(kb.classes[c].cog)

\* the stored atoms in the slot of atom p: same subject and category, or same
\* relation and arguments
StoredSlot(kb, p) ==
    IF IsPredicate(p)
    THEN IF IsInd(p.term)
         THEN IF p.term \in DOMAIN kb.individuals
              THEN {x \in Range(kb.individuals[p.term].categ) : x.parent = p.parent}
              ELSE {}
         ELSE IF p.term \in DOMAIN kb.classes
              THEN {x \in Range(kb.classes[p.term].parents) : x.parent = p.parent}
              ELSE {}
    ELSE LET s == get_args(p)[1]
             held == IF IsInd(s) THEN kb.individuals ELSE kb.classes
         IN IF s \in DOMAIN held /\ p.func \in DOMAIN held[s].relations
            THEN {x \in Range(held[s].relations[p.func]) : x.args = p.args}
            ELSE {}

\* the stored value satisfies the comparator and value of atom p
Satisfies(p, stored) ==
    \/ p.op = "=" /\ stored.value = p.value
    \/ p.op = ">" /\ stored.value > p.value
    \/ p.op = "<" /\ stored.value < p.value

\* the tri-value a direct lookup of p is described to give
SlotValue(kb, p) ==
    IF StoredSlot(kb, p) = {} THEN N
    ELSE IF \E x \in StoredSlot(kb, p) : Satisfies(p, x) THEN T ELSE F

\* the answer described for single=True: False when an entry is False, else
\* None when an entry is None, else True
single_answer(vals) ==
    IF \E i \in DOMAIN vals : vals[i] = F THEN F
    ELSE IF \E i \in DOMAIN vals : vals[i] = N THEN N
    ELSE T

\* the number of membership atoms a subject holds
NumMemb(kb, s) ==
    IF s \in DOMAIN kb.individuals THEN Len(kb.individuals[s].categ)
    ELSE IF s \in DOMAIN kb.classes THEN Len(kb.classes[s].parents)
    ELSE 0

(***************************************************************************)
(* C1.  ask(q, single=True) returns False whenever some entry of the       *)
(* inference results is False, None only when no entry is False and some   *)
(* entry is None, and True only when every entry is True, whatever the     *)
(* order of the results map.                                               *)
(***************************************************************************)
C1_ask_single_tri_value ==
    last.op = "ask" => last.res = single_answer(Flatten(last.results))

(***************************************************************************)
(* C2.  Whenever ask(q, single=True) returns True, a following test_pred   *)
(* on every atom of q returns True.                                        *)
(***************************************************************************)
C2_ask_true_is_stored ==
    (last.op = "ask" /\ last.res = T)
        => \A p \in QueryAtoms(last.arg) : test_pred(KB, p) = T

(***************************************************************************)
(* C3.  When the store holds an atom in the slot of a queried atom and its *)
(* value does not satisfy the query's comparator and value, ask returns    *)
(* False.  Stated for the atoms whose subject is an individual.            *)
(***************************************************************************)
C3_ask_mismatch_is_false ==
    [][(/\ last'.op = "ask"
        /\ \E p \in QueryAtoms(last'.arg) :
              IsInd(IF IsPredicate(p) THEN p.term ELSE get_args(p)[1])
                  /\ SlotValue(KB, p) = F)
           => last'.res = F]_vars

(***************************************************************************)
(* C4.  A second identical ask, with no tell in between, returns what the  *)
(* first returned.                                                         *)
(***************************************************************************)
C4_ask_idempotent ==
    last.op = "ask"
        => \A ord \in Orders : ask(KB, last.arg, ord).res = last.res

(***************************************************************************)
(* C5.  After tell(rule) and then tell(fact), the fact completing the      *)
(* rule's antecedent for a subject, the consequent for that subject is in  *)
(* the store before any ask: test_pred on it returns True.                 *)
(***************************************************************************)
C5_tell_fact_runs_rule ==
    (/\ last.op = "tell_memb"
     /\ RuleIndexed(KB, "r1")
     /\ Len(last.arg) = 1 /\ IsInd(last.arg[1].term)
     /\ last.arg[1].parent = "A" /\ last.arg[1].value = 1)
        => test_pred(KB, FreeTerm("B", last.arg[1].term, 1, "=")) = T

(***************************************************************************)
(* C6.  save_rule(rule) on a store holding the rule's antecedent for some  *)
(* subjects asserts the rule's consequent for each of them.                *)
(***************************************************************************)
C6_save_rule_runs_rule ==
    (last.op = "save_rule" /\ last.arg = "r1")
        => \A s \in IndNames :
              test_pred(KB, FreeTerm("A", s, 1, "=")) = T
                  => test_pred(KB, FreeTerm("B", s, 1, "=")) = T

(***************************************************************************)
(* C7.  With the rule A[x] && B[x] |> C[x] alone and a subject s that      *)
(* holds A but not B, ask(C[s], single=True) returns None and C[s] is not  *)
(* asserted into the store.                                                *)
(***************************************************************************)
C7_conjunction_needs_all ==
    [][\A s \in IndNames :
          (/\ last'.op = "ask"
           /\ last'.arg = MembQuery(<<FreeTerm("C", s, 1, "=")>>)
           /\ RuleIndexed(KB, "r2")
           /\ \A id \in SentenceIds \ {"r2"} : ~RuleIndexed(KB, id)
           /\ test_pred(KB, FreeTerm("A", s, 1, "=")) = T
           /\ test_pred(KB, FreeTerm("B", s, 1, "=")) # T
           /\ test_pred(KB, FreeTerm("C", s, 1, "=")) = N)
              => /\ last'.res = N
                 /\ test_pred(KB', FreeTerm("C", s, 1, "=")) = N]_vars

(***************************************************************************)
(* C8.  tell(m) followed by test_pred(m) returns True for every grounded   *)
(* membership atom m, its subject an individual or a class.                *)
(***************************************************************************)
C8_tell_then_test_pred ==
    (last.op = "tell_memb" /\ Len(last.arg) = 1)
        => test_pred(KB, last.arg[1]) = T

(***************************************************************************)
(* C9.  test_pred(atom) is True iff the slot of the atom holds a value     *)
(* satisfying its comparator and value, False iff the slot holds a value   *)
(* that does not, and None iff the slot is empty.                          *)
(***************************************************************************)
C9_test_pred_tri_value ==
    last.op = "test_pred" => last.res = SlotValue(KB, last.arg)

(***************************************************************************)
(* C10.  After every operation each subject, individual or class, holds at *)
(* most one membership atom per category, and a tell of a membership atom  *)
(* whose (subject, category) is already held leaves the number of atoms    *)
(* the subject holds unchanged.                                            *)
(***************************************************************************)
AtMostOneMemb(kb) ==
    /\ \A s \in DOMAIN kb.individuals :
          \A i, j \in DOMAIN kb.individuals[s].categ :
             kb.individuals[s].categ[i].parent = kb.individuals[s].categ[j].parent
                 => i = j
    /\ \A s \in DOMAIN kb.classes :
          \A i, j \in DOMAIN kb.classes[s].parents :
             kb.classes[s].parents[i].parent = kb.classes[s].parents[j].parent
                 => i = j

C10_one_atom_per_slot ==
    [][/\ AtMostOneMemb(KB')
       /\ (/\ last'.op = "tell_memb"
           /\ Len(last'.arg) = 1
           /\ StoredSlot(KB, last'.arg[1]) # {})
             => /\ NumMemb(KB', last'.arg[1].term) = NumMemb(KB, last'.arg[1].term)
                /\ StoredSlot(KB', last'.arg[1]) = {last'.arg[1]}]_vars

\* three tells, all of A[$a,u=v]: the last one re-asserted a held slot with
\* the value 0 and the subject holds the one atom
C10_reasserted ==
    /\ last.op = "tell_memb"
    /\ tells = 3
    /\ DOMAIN individuals = {"$a"}
    /\ DOMAIN classes = {"A"}
    /\ classes["A"].cog = <<>>
    /\ individuals["$a"].relations = EmptyDict
    /\ individuals["$a"].categ = <<GroundedTerm("A", "$a", 0)>>

(***************************************************************************)
(* C12.  After a tell of a relation atom f, every argument subject of f    *)
(* holds, in its bucket for f.func, an atom with the arguments of f, also  *)
(* when the subject already held atoms of that relation with other         *)
(* arguments; hence test_pred(f) right after the tell is True.             *)
(***************************************************************************)
HoldsArgs(kb, s, f) ==
    LET held == IF IsInd(s) THEN kb.individuals ELSE kb.classes
    IN /\ s \in DOMAIN held
       /\ f.func \in DOMAIN held[s].relations
       /\ \E x \in Range(held[s].relations[f.func]) : x.args = f.args

C12_tell_rel_then_held ==
    last.op = "tell_rel"
        => /\ \A i \in DOMAIN get_args(last.arg) :
                 HoldsArgs(KB, get_args(last.arg)[i], last.arg)
           /\ test_pred(KB, last.arg) = T

(***************************************************************************)
(* C13.  In every reachable store no bucket of relation atoms of a subject *)
(* holds two atoms with the same arguments.                                *)
(***************************************************************************)
NoTwoSameArgs(rels) ==
    \A r \in DOMAIN rels :
        \A i, j \in DOMAIN rels[r] : rels[r][i].args = rels[r][j].args => i = j

ChildValues(t, kb) ==
    [i \in DOMAIN t.next |-> resolve(t.next[i], kb, [v \in {"x"} |-> "$a"])]

C18_disjunction_resolve ==
    (last.op = "resolve" /\ last.arg.cond = "||")
        => LET r == ChildValues(last.arg, KB) IN
           last.res = IF \E i \in DOMAIN r : r[i] = T THEN T
                      ELSE IF \A i \in DOMAIN r : r[i] = F THEN F
                      ELSE N

(***************************************************************************)
(* C19.  resolve of an implication gives None (unknown) whenever either    *)
(* side is unknown, False only when the left side is True and the right    *)
(* side is False, and True otherwise.                                      *)
(***************************************************************************)
C19_implication_resolve ==
    (last.op = "resolve" /\ last.arg.cond = "=>")
        => LET r == ChildValues(last.arg, KB) IN
           last.res = IF r[1] = N \/ r[2] = N THEN N
                      ELSE IF r[1] = T /\ r[2] = F THEN F
                      ELSE T

(***************************************************************************)
(* C14.  Every membership and relation value stored in the knowledge base  *)
(* lies in [0,1]: a tell of an atom whose value is outside that range is   *)
(* rejected when the string is parsed and the value never reaches the      *)
(* store.                                                                  *)
(***************************************************************************)
InRange(x) == x.value >= 0 /\ x.value <= 1

HeldRelAtoms(obj) == UNION {Range(obj.relations[r]) : r \in DOMAIN obj.relations}

StoredAtoms(kb) ==
    UNION ({Range(kb.individuals[s].categ) \cup HeldRelAtoms(kb.individuals[s]) :
               s \in DOMAIN kb.individuals}
           \cup {Range(kb.classes[s].parents) \cup HeldRelAtoms(kb.classes[s]) :
                    s \in DOMAIN kb.classes})

ToldAtoms(l) == IF l.op = "tell_memb" THEN Range(l.arg) ELSE {l.arg}

C14_values_in_range ==
    /\ \A x \in StoredAtoms(KB) : InRange(x)
    /\ (last.op \in {"tell_memb", "tell_rel"}
            /\ \E x \in ToldAtoms(last) : ~InRange(x))
          => last.res = "raise"

\* A[$a,u=1] was told and stored, and the tell of A[$a,u=2] was rejected
C14_rejected ==
    /\ last.op = "tell_memb"
    /\ last.arg = <<GroundedTerm("A", "$a", 2)>>
    /\ last.res = "raise"
    /\ tells = 1
    /\ "$a" \in DOMAIN individuals
    /\ individuals["$a"].categ = <<GroundedTerm("A", "$a", 1)>>

(***************************************************************************)
(* C15.  ask(':vars:x: (c[x,u=v])', single=False) returns a mapping that   *)
(* has c -> True for every subject, individual or class, that holds c      *)
(* with a value satisfying the query.                                      *)
(***************************************************************************)
HoldersOf(kb, p) ==
    {s \in (DOMAIN kb.individuals) \cup (DOMAIN kb.classes) :
        \E x \in StoredSlot(kb, [p EXCEPT !.term = s]) : Satisfies(p, x)}

C15_ask_var_all_holders ==
    (/\ last.op = "ask_all"
     /\ Len(last.arg.queries[1].preds) = 1)
        => /\ last.res # "raise"
           /\ \A s \in HoldersOf(KB, last.arg.queries[1].preds[1]) :
                 /\ OHas(last.results, s)
                 /\ OHas(OGet(last.results, s), last.arg.queries[1].preds[1].parent)
                 /\ OGet(OGet(last.results, s),
                         last.arg.queries[1].preds[1].parent) = T

(***************************************************************************)
(* C16.  ask never raises for an inference shortcoming (an unknown         *)
(* subject, no rules, rules about absent subjects, a relation with a       *)
(* variable): it returns a tri-valued result.                              *)
(***************************************************************************)
C16_ask_never_raises ==
    last.op = "ask" => last.res \in {T, F, N}

(***************************************************************************)
(* C17.  A sentence with a disjunction, implication or equivalence in the  *)
(* consequent of |> is rejected when it is told, with or without declared  *)
(* variables, and it is indexed in no cog list.                            *)
(***************************************************************************)
RECURSIVE HasChoice(_)
HasChoice(t) ==
    /\ t.cond # ":predicate:"
    /\ \/ t.cond \in {"||", "=>", "<=>"}
       \/ HasChoice(t.next[1])
       \/ HasChoice(t.next[2])

IllegalConsequent(sent) == sent.start.cond = "|>" /\ HasChoice(sent.start.next[2])

C17_choice_consequent_rejected ==
    /\ \A id \in EdgeRules : IllegalConsequent(Sentence(id)) => ~RuleIndexed(KB, id)
    /\ (last.op = "save_rule" /\ IllegalConsequent(Sentence(last.arg)))
          => last.res = "raise"

(***************************************************************************)
(* C11.  After tell(m) and then tell(m') for the same subject and category *)
(* with a different value, both direct user assertions, the second tell    *)
(* completes without error and the atom stored for the slot carries the    *)
(* later value.                                                            *)
(***************************************************************************)
ToldBySelf(b, x) == BmsKey(x) \in DOMAIN b /\ b[BmsKey(x)] = "SELF"

C20_mutual_exclusion ==
    \A t1, t2 \in Threads :
        (pc[t1] = "solve_proof" /\ pc[t2] = "solve_proof") => t1 = t2

(***************************************************************************)
(* C21.  A call whose lock.acquire gave up after the bounded wait is       *)
(* aborted: it does not go on to evaluate the sentence (so it asserts      *)
(* nothing) and does not go on to release the lock, which it does not      *)
(* hold.  Every call that is evaluating or unlocking got its lock.         *)
(***************************************************************************)
C21_timeout_aborts ==
    \A t \in Threads :
        pc[t] \in {"solve_proof", "unlock", "release", "del"} => got[t]

(***************************************************************************)
(* C22.  Every lock a call acquired is released on every exit path, an     *)
(* exception raised inside solve_proof included: once every call has       *)
(* ended (returned or raised), no Lock is locked and no atom is            *)
(* registered as locked.                                                   *)
(***************************************************************************)
C22_locks_released ==
    (\A t \in Threads : pc[t] \in {"returned", "raised"})
        => (acquired = {} /\ locked = 0)

(***************************************************************************)
(* C23.  Every step that changes the atom lists of an Individual or a      *)
(* Category is a step of a thread that holds the lock: the substitution    *)
(* of a call whose acquire succeeded.  A tell beside the calls changes     *)
(* nothing without the lock.                                               *)
(***************************************************************************)
C23_mutation_under_lock ==
    [][(individuals' # individuals \/ classes' # classes)
          => \E t \in Threads :
                pc[t] = "solve_proof" /\ pc'[t] # "solve_proof" /\ got[t]]_vars

(***************************************************************************)
(* C24.  Concurrent calls of one sentence with different arguments do not  *)
(* share bindings: the evaluation step of call t changes the atoms of no   *)
(* subject but its own argument Arg(t), and the result call t returns      *)
(* holds atoms of Arg(t) only.                                             *)
(***************************************************************************)
C24_bindings_per_call ==
    [][\A t \in Threads :
          /\ (pc[t] = "solve_proof" /\ pc'[t] # "solve_proof")
                => \A s \in DOMAIN individuals' :
                      s # Arg(t) =>
                          /\ s \in DOMAIN individuals
                          /\ individuals'[s] = individuals[s]
          /\ (pc[t] = "return" /\ pc'[t] = "returned")
                => \A i \in DOMAIN logsentence.result.atoms :
                      logsentence.result.atoms[i].term = Arg(t)]_vars

(***************************************************************************)
(* C30.  An indicative conditional resolves its left side first and        *)
(* substitutes its right side only when the left side resolved true: then  *)
(* the result is the list of the asserted atoms, which the store holds.    *)
(* When the left side is false or unknown, store and container are left    *)
(* unchanged and the result is false or none (unknown) respectively.       *)
(***************************************************************************)
LeftSide(id, kb) ==
    resolve(Sentence(id).start.next[1], kb, [v \in {"x"} |-> "$a"])

C30_assert_only_when_true ==
    [][last'.op = "solve_proof" =>
          /\ LeftSide(last'.arg, KB) = T =>
                /\ last'.res = "list"
                /\ last'.results # <<>>
                /\ \A i \in DOMAIN last'.results :
                      test_pred(KB', last'.results[i]) = T
          /\ LeftSide(last'.arg, KB) # T =>
                /\ UNCHANGED <<individuals, classes, bms>>
                /\ last'.results = <<>>
                /\ last'.res = IF LeftSide(last'.arg, KB) = F THEN "false"
                               ELSE "none"]_vars

\* r1 was evaluated with A[$a] false: nothing asserted, B[$a] still unknown
C30_left_false ==
    /\ last.op = "solve_proof"
    /\ last.arg = "r1"
    /\ last.res = "false"
    /\ test_pred(KB, GroundedTerm("A", "$a", 0)) = T
    /\ test_pred(KB, GroundedTerm("B", "$a", 1)) = N

(***************************************************************************)
(* C29.  Every saved rule is indexed exactly once under every category or  *)
(* relation name one of its atoms mentions: a rule found in some cog list  *)
(* appears exactly once in the cog list of classes[name] for each of its   *)
(* names, whatever rules were saved after it and also when it mentions a   *)
(* name twice.                                                             *)
(***************************************************************************)
AllSentenceIds == {"r1", "r2", "r3", "r4", "r5", "r6"}

CogCount(kb, name, id) ==
    IF name \in DOMAIN kb.classes
    THEN Cardinality({i \in DOMAIN kb.classes[name].cog :
                         kb.classes[name].cog[i] = id})
    ELSE 0

C29_rule_indexed_once ==
    \A id \in AllSentenceIds :
        RuleIndexed(KB, id) =>
            \A name \in Range(NamesOf(get_all_preds(Sentence(id)))) :
                CogCount(KB, name, id) = 1

(***************************************************************************)
(* C25.  After BmsWrapper.add(atom, True) the container holds a record     *)
(* under the atom's key (name, subject, comparator and value) with form    *)
(* SELF and no prev, also when the atom is the first one of its subject    *)
(* or its subject is a class.                                              *)
(***************************************************************************)
C25_add_records_self ==
    last.op = "add" =>
        /\ BeliefKey(last.arg) \in DOMAIN bms
        /\ bms[BeliefKey(last.arg)] = [form |-> "SELF", prev |-> <<>>]

(***************************************************************************)
(* C26.  In every state of the container, every key listed in the prev of  *)
(* a record whose form is a sentence is a key of the container (records    *)
(* are never deleted, so it was one when the record was made).             *)
(***************************************************************************)
C26_prev_keys_recorded ==
    \A k \in DOMAIN bms :
        bms[k].form # "SELF" =>
            \A i \in DOMAIN bms[k].prev : bms[k].prev[i] \in DOMAIN bms

\* a sentence's record lists a contributing belief
C26_derived_with_prev ==
    \E k \in DOMAIN bms : bms[k].form # "SELF" /\ bms[k].prev # <<>>

(***************************************************************************)
(* C27.  When BmsWrapper.add gets an atom for a slot that holds a value,   *)
(* INCONSISTENCY is flagged exactly when the pair is not consistent under  *)
(* the comparator: '=' needs stored = new, '>' needs stored > new, '<'     *)
(* needs stored < new; for a relation atom on a held relation the check    *)
(* ends flagged or not flagged.                                            *)
(***************************************************************************)
Consistent(op, stored, new) ==
    CASE op = "=" -> stored = new
      [] op = ">" -> stored > new
      [] op = "<" -> stored < new

SlotHeld(kb, p) ==
    /\ p.sbj \in DOMAIN kb.individuals
    /\ IF p.kind = "memb"
       THEN p.cat \in DOMAIN Individual_get_cat(kb.individuals[p.sbj])
       ELSE p.cat \in kb.individuals[p.sbj].relations

C27_flag_iff_inconsistent ==
    (last.op = "add" /\ SlotHeld(KB, last.arg)) =>
        IF last.arg.kind = "memb"
        THEN (last.res = "INCONSISTENCY")
                <=> ~Consistent(last.arg.op,
                                Individual_get_cat(individuals[last.arg.sbj])[last.arg.cat],
                                last.arg.val)
        ELSE last.res \in {"INCONSISTENCY", "-"}

(***************************************************************************)
(* C28.  When save_rule or ask has finished, every atom the run asserted   *)
(* (the atoms its BMS stub collected) has a record in the agent's          *)
(* container whose form is the sentence that produced it.                  *)
(***************************************************************************)
C28_stub_records_promoted ==
    last.op \in {"ask", "save_rule"} =>
        \A i \in DOMAIN last.results :
            /\ last.results[i] \in DOMAIN bms
            /\ bms[last.results[i]].form = last.arg

(***************************************************************************)
(* C31.  A queried atom 'u>v' matches a stored value s iff s > v, 'u<v'    *)
(* iff s < v and 'u=v' iff s = v, for membership atoms and for relation    *)
(* atoms alike: test_pred answers True exactly in these cases whenever     *)
(* the slot is held.                                                       *)
(***************************************************************************)
Matches(op, s, v) ==
    CASE op = "=" -> s = v
      [] op = ">" -> s > v
      [] op = "<" -> s < v

StoredValue(kb, p) ==
    IF IsPredicate(p)
    THEN kb.individuals[p.term].categ[
            IndexOfParent(kb.individuals[p.term].categ, p.parent)].value
    ELSE LET funcs == kb.individuals[get_args(p)[1]].relations[p.func]
         IN funcs[CHOOSE i \in DOMAIN funcs :
                     args_ID(funcs[i]) = args_ID(p)].value

C31_comparator_semantics ==
    (last.op = "test_pred" /\ last.res # N) =>
        ((last.res = T) <=> Matches(last.arg.op, StoredValue(KB, last.arg),
                                    last.arg.value))

(***************************************************************************)
(* C32.  map_vars gives, for each variable of the rule on its own, exactly *)
(* the subjects of obj_dic whose name set includes the names that variable *)
(* requires; a subject that meets only another variable's requirements is  *)
(* not among them.                                                         *)
(***************************************************************************)
Candidates(node, v, obj_dic) ==
    {obj \in DOMAIN obj_dic : node.subs[v] \subseteq obj_dic[obj]}

InferNodes == UNION {Range(last.results.nodes[i].v) : i \in DOMAIN last.results.nodes}

C32_map_vars_per_variable ==
    last.op = "infer" =>
        \A node \in InferNodes : \A i \in DOMAIN node.vars :
            map_vars(node, last.results.u.obj_dic)[i]
                = Candidates(node, node.vars[i], last.results.u.obj_dic)

(***************************************************************************)
(* C33.  When a rule application in unify asserted an atom with name n for *)
(* subject s, n is in obj_dic[s] after the pass, also when s had an entry  *)
(* in obj_dic before.                                                      *)
(***************************************************************************)
C33_asserted_name_in_obj_dic ==
    last.op = "infer" =>
        \A i \in DOMAIN last.results.u.seq :
            \A j \in DOMAIN last.results.u.seq[i].atoms :
                LET a == last.results.u.seq[i].atoms[j]
                IN /\ a.term \in DOMAIN last.results.u.obj_dic
                   /\ a.parent \in last.results.u.obj_dic[a.term]

(***************************************************************************)
(* C34.  Within one query no rule is invoked twice with the same node and  *)
(* argument tuple, whatever the first invocation returned.                 *)
(***************************************************************************)
C34_no_call_twice ==
    last.op = "infer" => last.results.u.twice = {}

(***************************************************************************)
(* C35.  The rules of one consequent name are evaluated newest first: of   *)
(* two calls made by the same unify(p), the earlier one is of a rule       *)
(* created no earlier than the rule of the later one.                      *)
(***************************************************************************)
SameVisit(seq, i, j) ==
    /\ i < j
    /\ seq[i].kind # "unify"
    /\ \A k \in i..j : seq[k].kind # "unify"

C35_newest_rule_first ==
    last.op = "infer" =>
        \A i, j \in DOMAIN last.results.u.seq :
            SameVisit(last.results.u.seq, i, j) =>
                Sentence(last.results.u.seq[i].rule).created
                    >= Sentence(last.results.u.seq[j].rule).created

(***************************************************************************)
(* C36.  For the stores and rule sets told, among them the rule pair       *)
(* A |> B, B |> A and the rule A && C |> A, the loop of passes of unify    *)
(* ends and ask returns: every pass after which the loop runs again has    *)
(* added an entry to the memoization table, whose entries are drawn from   *)
(* the finite set of the nodes with their argument tuples, so only         *)
(* finitely many passes follow one another; and no pass leaves the query   *)
(* by an exception.                                                        *)
(***************************************************************************)
PossibleCalls ==
    {<<<<p, i>>, args>> :
        p \in Ctgs, i \in 1..Cardinality(InferRules),
        args \in {<<s>> : s \in Subjects} \cup (Subjects \X Subjects)}

C36_ask_returns ==
    [][Running =>
         /\ last'.res \in {"running", "returned"}
         /\ Running' =>
               /\ last.results.u.queue \subseteq last'.results.u.queue
               /\ last.results.u.queue # last'.results.u.queue
               /\ last'.results.u.queue \subseteq PossibleCalls]_vars

\* a query over the rule pair r1, r8 returned after a pass in which every
\* call was memoized
C36_cyclic_rules_returned ==
    /\ last.op = "infer" /\ last.res = "returned"
    /\ {"r1", "r8"} \subseteq {n.rule : n \in InferNodes}
    /\ last.results.u.calls # {}
    /\ \A i \in DOMAIN last.results.u.seq : last.results.u.seq[i].kind = "unify"

(***************************************************************************)
(* C37.  save_rule only adds or updates atoms: every category of an        *)
(* individual, every relation it takes part in and every parent of a class *)
(* held before save_rule built its working representation, ran the rule    *)
(* and pushed the result is still held after it.                           *)
(***************************************************************************)
HeldNames(atoms) == {atoms[i][1] : i \in DOMAIN atoms}

C37_save_rule_keeps_atoms ==
    [][last'.op = "save_rule" =>
         /\ \A n \in DOMAIN individuals :
               /\ n \in DOMAIN individuals'
               /\ HeldNames(individuals[n].categ)
                     \subseteq HeldNames(individuals'[n].categ)
               /\ individuals[n].relations \subseteq individuals'[n].relations
         /\ \A n \in DOMAIN classes :
               /\ n \in DOMAIN classes'
               /\ HeldNames(classes[n].parents)
                     \subseteq HeldNames(classes'[n].parents)]_vars

(***************************************************************************)
(* C38: in every reachable store state every entry is stored under its own *)
(* name: classes[k].name = k and individuals[k].name = k for every key k,  *)
(* the categories and relations that add_cog and save_rule create for a    *)
(* sentence with variables included.                                       *)
(***************************************************************************)
C38_entries_under_own_name ==
    /\ \A k \in DOMAIN classes : classes[k].name = k
    /\ \A k \in DOMAIN individuals : individuals[k].name = k

(***************************************************************************)
(* C39: under any interleaving of concurrent sentence calls,               *)
(* thread_manager(unlock=True) finds the lock the call acquired still      *)
(* registered in _locked and releases only a lock the calling evaluation   *)
(* itself holds: it never fails on a missing entry and never releases a    *)
(* lock it did not acquire.                                                *)
(***************************************************************************)
C39_unlock_own_lock ==
    [][\A t \in Threads :
          /\ (pc[t] \in {"unlock", "del"} /\ pc'[t] # pc[t])
                => pc'[t] # "raised"
          /\ (pc[t] = "unlock" /\ pc'[t] # pc[t] /\ got[t])
                => locked = lock[t]
          /\ (pc[t] = "release" /\ pc'[t] # pc[t])
                => (got[t] /\ lock[t] \in acquired)]_vars

====
